---------------------------- MODULE Spec2Model ----------------------------
(***************************************************************************)
(* Model of the birth-chart generator's placement pipeline.                *)
(*                                                                         *)
(* Degrees are integer degrees.  A value that has not been computed yet is *)
(* the empty sequence <<>>, a computed value v is <<v>>.                   *)
(***************************************************************************)
EXTENDS Integers, Sequences, FiniteSets, TLC

VARIABLES
    (* degree helpers: normalizeDeg, degreeToSign, the South Node degree *)
    deg, normalized, renormalized, signName, southDeg, southBack,
    (* getHouseFromCusps: point degree, the houses array, the house returned *)
    pointDeg, houses, houseNum,
    (* one invocation of a request handler *)
    variant,    \* which handler file runs
    body,       \* the parsed request body
    tagMap,     \* KIT_TAG_MAP_JSON: the tag keys that map to a tag id
    pc,         \* the external call the handler is about to make, or "done"
    local,      \* the handler's local variables
    calls,      \* the external calls made so far, with their replies
    warnings,   \* console.warn lines
    response    \* <<>> until the handler returns, then <<its return value>>

degVars == <<deg, normalized, renormalized, signName, southDeg, southBack>>
houseVars == <<pointDeg, houses, houseNum>>
runVars == <<variant, body, tagMap, pc, local, calls, warnings, response>>
vars == <<degVars, houseVars, runVars>>

(***************************************************************************)
(* Bounds of the model.                                                    *)
(***************************************************************************)
\* input degrees of the degree helpers range over -MaxDeg .. MaxDeg
MaxDeg == 800
\* a cusp table has at most MaxIrregular advances that are not 30 degrees
\* (tables whose cusps all coincide, and the empty table, are inputs as well)
MaxIrregular == 3

(***************************************************************************)
(* Program constants.                                                      *)
(***************************************************************************)
FullCircle == 360
SignWidth == 30
HalfCircle == 180
NumHouses == 12

(***************************************************************************)
(* normalizeDeg: two while loops, one adding and one subtracting 360.      *)
(***************************************************************************)
RECURSIVE WhileNegative(_)
WhileNegative(d) ==
    IF d < 0 THEN WhileNegative(d + FullCircle) ELSE d

RECURSIVE WhileTooLarge(_)
WhileTooLarge(d) ==
    IF d >= FullCircle THEN WhileTooLarge(d - FullCircle) ELSE d

\* mutant: the second loop tests d > 360, so 360 itself is returned
RECURSIVE WhileTooLargeStrict(_)
WhileTooLargeStrict(d) ==
    IF d > FullCircle THEN WhileTooLargeStrict(d - FullCircle) ELSE d

normalizeDegStrict(d) ==
    WhileTooLargeStrict(WhileNegative(d))

normalizeDeg(d) ==
    WhileTooLarge(WhileNegative(d))

(***************************************************************************)
(* degreeToSign: signs[Math.floor(normalizeDeg(deg) / 30)].                *)
(***************************************************************************)
signs ==
    << "Aries", "Taurus", "Gemini", "Cancer", "Leo", "Virgo",
       "Libra", "Scorpio", "Sagittarius", "Capricorn", "Aquarius", "Pisces" >>

\* mutant: Math.round instead of Math.floor (the index wraps to stay in range)
degreeToSignRound(d) ==
    signs[(((normalizeDeg(d) + (SignWidth \div 2)) \div SignWidth) % Len(signs)) + 1]

degreeToSign(d) ==
    signs[(normalizeDeg(d) \div SignWidth) + 1]

(***************************************************************************)
(* The South Node degree of buildPlacements: normalizeDeg(node + 180).     *)
(***************************************************************************)
\* mutant: the opposite point is left unnormalized
southDegOfRaw(nodeFullDeg) ==
    nodeFullDeg + HalfCircle

southDegOf(nodeFullDeg) ==
    normalizeDeg(nodeFullDeg + HalfCircle)

(***************************************************************************)
(* getHouseFromCusps.                                                      *)
(***************************************************************************)
\* houses.map(h => ({house: Number(h.house), degree: normalizeDeg(h.degree)}))
mapCusps(hs) ==
    [i \in 1..Len(hs) |-> [house |-> hs[i].house, degree |-> normalizeDeg(hs[i].degree)]]

\* insertion of one cusp into an array sorted by house, after its equals (stable)
RECURSIVE insertByHouse(_, _)
insertByHouse(sorted, c) ==
    IF sorted = <<>> THEN <<c>>
    ELSE IF c.house < Head(sorted).house THEN <<c>> \o sorted
    ELSE <<Head(sorted)>> \o insertByHouse(Tail(sorted), c)

\* mutant: the cusps are used in the order the provider sent them
sortByHouseUnsorted(cs) ==
    cs

\* .sort((a, b) => a.house - b.house)
RECURSIVE sortByHouse(_)
sortByHouse(cs) ==
    IF cs = <<>> THEN <<>>
    ELSE insertByHouse(sortByHouse(SubSeq(cs, 1, Len(cs) - 1)), cs[Len(cs)])

\* mutant: a segment that wraps past 360 is tested like one that does not
segmentHoldsNoWrap(p, start, end) ==
    p >= start /\ p < end

\* the test of one segment: if (start <= end) {...} else {...}
segmentHolds(p, start, end) ==
    IF start <= end
    THEN p >= start /\ p < end
    ELSE p >= start \/ p < end

\* the for loop from index i (0-based in the code, 1-based here) and the fallback
RECURSIVE scanCusps(_, _, _)
scanCusps(p, cusps, i) ==
    IF i > Len(cusps) THEN 1
    ELSE IF segmentHolds(p, cusps[i].degree, cusps[(i % Len(cusps)) + 1].degree)
         THEN cusps[i].house
         ELSE scanCusps(p, cusps, i + 1)

getHouseFromCusps(point, hs) ==
    scanCusps(normalizeDeg(point), sortByHouse(mapCusps(hs)), 1)

(***************************************************************************)
(* JavaScript values read from JSON or from the request.  A value is a      *)
(* record [t, n, word, casing]: t is its kind, n its number (kinds "number" *)
(* and "numstring", a string of digits), word and casing its letters (kind  *)
(* "text", a string that is no number).                                     *)
(***************************************************************************)
Undefined == [t |-> "undefined", n |-> 0, word |-> "", casing |-> ""]
Null == [t |-> "null", n |-> 0, word |-> "", casing |-> ""]
EmptyString == [t |-> "emptystring", n |-> 0, word |-> "", casing |-> ""]
Num(k) == [t |-> "number", n |-> k, word |-> "", casing |-> ""]
NumString(k) == [t |-> "numstring", n |-> k, word |-> "", casing |-> ""]
Text(w, c) == [t |-> "text", n |-> 0, word |-> w, casing |-> c]

\* a JavaScript number: finite with value v / den (den = 1 for an integer), or NaN
NaN == [fin |-> FALSE, v |-> 0, den |-> 1]
Finite(k) == [fin |-> TRUE, v |-> k, den |-> 1]

RECURSIVE Gcd(_, _)
Gcd(a, b) == IF b = 0 THEN a ELSE Gcd(b, a % b)

\* the number n / d (d > 0), in lowest terms
Quotient(n, d) ==
    LET g == Gcd(IF n < 0 THEN 0 - n ELSE n, d)
    IN  [fin |-> TRUE, v |-> n \div g, den |-> d \div g]

\* Number(x)
Number(x) ==
    CASE x.t \in {"number", "numstring"} -> Finite(x.n)
      [] x.t \in {"null", "emptystring"} -> Finite(0)
      [] OTHER -> NaN

\* !!x
Truthy(x) ==
    CASE x.t = "number" -> x.n # 0
      [] x.t \in {"numstring", "text"} -> TRUE
      [] OTHER -> FALSE

\* element i of a destructured array (undefined past its end)
Part(parts, i) ==
    IF i <= Len(parts) THEN parts[i] ELSE Undefined

\* titleCase / toTitleCase of part_000, part_001 and the first handler of
\* generate-chart.js: "" unless a non-empty string, else first letter upper
\* case and the rest lower case
titleCase(s) ==
    IF s.t = "text" THEN Text(s.word, "title")
    ELSE IF s.t = "numstring" THEN s
    ELSE EmptyString

(***************************************************************************)
(* Strings the handlers cut up are sequences of tokens: words, "," and " ". *)
(***************************************************************************)
\* String.prototype.trim
RECURSIVE trimStart(_)
trimStart(str) ==
    IF str # <<>> /\ Head(str) = " " THEN trimStart(Tail(str)) ELSE str

RECURSIVE trimEnd(_)
trimEnd(str) ==
    IF str # <<>> /\ str[Len(str)] = " "
    THEN trimEnd(SubSeq(str, 1, Len(str) - 1))
    ELSE str

trim(str) ==
    trimEnd(trimStart(str))

\* str.split(",")[0]
RECURSIVE beforeFirstComma(_)
beforeFirstComma(str) ==
    IF str = <<>> \/ Head(str) = "," THEN <<>>
    ELSE <<Head(str)>> \o beforeFirstComma(Tail(str))

(***************************************************************************)
(* Inputs of the degree helpers and of getHouseFromCusps.                  *)
(***************************************************************************)
DegInputs == (0 - MaxDeg) .. MaxDeg

\* point degrees tried against each cusp table
PointInputs == {0, 10, 15, 25, 45, 100, 200, 355, 375, 0 - 5}

\* degree of house 1's cusp; -10 and 380 are cusps the provider did not normalize
CuspStarts == {0, 20, 0 - 10}

\* degree of house h's cusp: the start plus one advance per earlier house
RECURSIVE cuspDegree(_, _, _, _)
cuspDegree(h, start, irregular, step) ==
    IF h = 1 THEN start
    ELSE cuspDegree(h - 1, start, irregular, step)
         + (IF h \in irregular THEN step ELSE SignWidth)

\* the houses array in ascending house order, or reversed
cuspTable(start, irregular, step, reversed) ==
    [i \in 1..NumHouses |->
        LET h == IF reversed THEN NumHouses + 1 - i ELSE i
        IN  [house |-> h, degree |-> cuspDegree(h, start, irregular, step)]]

\* the cusp-to-cusp advance that replaces the regular 30 degrees where a table
\* is irregular: 0 gives coinciding cusps, 10 gives unequal houses in zodiacal
\* order, 200 gives segments that overlap
CuspInputs ==
    { cuspTable(start, irregular, step, reversed) :
        start \in CuspStarts,
        irregular \in {ir \in SUBSET (2..NumHouses) : Cardinality(ir) <= MaxIrregular},
        step \in {0, 10, 200}, reversed \in BOOLEAN }
    \cup { cuspTable(start, 2..NumHouses, 0, FALSE) : start \in CuspStarts }
    \cup { <<>> }

(***************************************************************************)
(* Degree helpers applied to an input degree.                              *)
(***************************************************************************)
InitDeg ==
    /\ deg \in DegInputs
    /\ normalized = <<>>
    /\ renormalized = <<>>
    /\ signName = <<>>
    /\ southDeg = <<>>
    /\ southBack = <<>>

InitHouseIdle ==
    /\ pointDeg = 0
    /\ houses = <<>>
    /\ houseNum = <<>>

InitRunIdle ==
    /\ variant = "none"
    /\ body = <<>>
    /\ tagMap = {}
    /\ pc = "done"
    /\ local = <<>>
    /\ calls = <<>>
    /\ warnings = <<>>
    /\ response = <<>>

NormalizeDeg ==
    /\ normalized = <<>>
    /\ normalized' = <<normalizeDeg(deg)>>
    /\ UNCHANGED <<deg, renormalized, signName, southDeg, southBack, houseVars, runVars>>

NormalizeAgain ==
    /\ normalized # <<>>
    /\ renormalized = <<>>
    /\ renormalized' = <<normalizeDeg(normalized[1])>>
    /\ UNCHANGED <<deg, normalized, signName, southDeg, southBack, houseVars, runVars>>

DegreeToSign ==
    /\ signName = <<>>
    /\ signName' = <<degreeToSign(deg)>>
    /\ UNCHANGED <<deg, normalized, renormalized, southDeg, southBack, houseVars, runVars>>

SouthDeg ==
    /\ southDeg = <<>>
    /\ southDeg' = <<southDegOf(deg)>>
    /\ UNCHANGED <<deg, normalized, renormalized, signName, southBack, houseVars, runVars>>

SouthDegAgain ==
    /\ southDeg # <<>>
    /\ southBack = <<>>
    /\ southBack' = <<southDegOf(southDeg[1])>>
    /\ UNCHANGED <<deg, normalized, renormalized, signName, southDeg, houseVars, runVars>>

NextDeg ==
    \/ NormalizeDeg
    \/ NormalizeAgain
    \/ DegreeToSign
    \/ SouthDeg
    \/ SouthDegAgain

InitSpecDeg == InitDeg /\ InitHouseIdle /\ InitRunIdle

SpecDeg == InitSpecDeg /\ [][NextDeg]_vars

(***************************************************************************)
(* getHouseFromCusps applied to a point and a cusp table.                  *)
(***************************************************************************)
InitDegIdle ==
    /\ deg = 0
    /\ normalized = <<>>
    /\ renormalized = <<>>
    /\ signName = <<>>
    /\ southDeg = <<>>
    /\ southBack = <<>>

InitHouse ==
    /\ pointDeg \in PointInputs
    /\ houses \in CuspInputs
    /\ houseNum = <<>>

GetHouseFromCusps ==
    /\ houseNum = <<>>
    /\ houseNum' = <<getHouseFromCusps(pointDeg, houses)>>
    /\ UNCHANGED <<pointDeg, houses, degVars, runVars>>

NextHouse == GetHouseFromCusps

InitSpecHouse == InitHouse /\ InitDegIdle /\ InitRunIdle

SpecHouse == InitSpecHouse /\ [][NextHouse]_vars

(***************************************************************************)
(* Request handlers.  Each action is one external call of the handler with  *)
(* a reply chosen by the provider, followed by the handler's code up to its *)
(* next external call or its return.                                        *)
(***************************************************************************)
Part000 == "part_000"
Part001 == "part_001"
GenerateChartKit == "generate-chart.js#1"
GenerateChartPlacements == "generate-chart.js#3"
GenerateChartStub == "generate-chart.js#2"
GenerateChartKitTimezone == "generate-chart.js#4"

\* requests to the handlers that read no timezone field.  dob split at "-":
\* 1990-06-15, 1990-13-40, "june", -06-15, and no dob; tob split at ":": 14:30,
\* 25:61, "14", and no tob
BodyInputs ==
    [email : BOOLEAN,
     dob : { <<NumString(1990), NumString(6), NumString(15)>>,
             <<NumString(1990), NumString(13), NumString(40)>>,
             <<Text("june", "lower")>>,
             <<EmptyString, NumString(6), NumString(15)>>,
             <<>> },
     tob : { <<NumString(14), NumString(30)>>,
             <<NumString(25), NumString(61)>>,
             <<NumString(14)>>,
             <<>> },
     birthplace : { <<"Melbourne", ",", " ", "Australia">>, <<" ", "Paris", " ">>, <<>> },
     timezone : {Undefined}]

\* requests to the handlers that require a timezone field; they pass dob and
\* tob on as they are
TimezoneBodyInputs ==
    [email : BOOLEAN,
     dob : { <<NumString(1990), NumString(6), NumString(15)>>, <<>> },
     tob : { <<NumString(14), NumString(30)>>, <<>> },
     birthplace : { <<"Melbourne", ",", " ", "Australia">>, <<>> },
     timezone : {Undefined, Text("australia/melbourne", "words")}]

\* the sign words the providers answer with
SignWords == {"gemini", "scorpio", "capricorn"}

\* a tag key `SUN_${sun}` is the pair of its prefix and the sign
tagKey(prefix, sign) == <<prefix, sign>>

\* tag maps: every title-case key mapped, only the SUN_ keys mapped, only the
\* MOON_ keys mapped (an unmapped key ahead of a mapped one), none mapped
TagMapInputs ==
    { { tagKey(prefix, Text(w, "title")) : prefix \in {"SUN", "MOON", "RISING"}, w \in SignWords },
      { tagKey("SUN", Text(w, "title")) : w \in SignWords },
      { tagKey("MOON", Text(w, "title")) : w \in SignWords },
      {} }

\* the handler's local variables before it assigns them
LocalInit ==
    [ parsed |-> <<>>, attempts |-> <<>>, i |-> 1,
      geo |-> [isNull |-> TRUE, geonames |-> <<>>], lastGeoError |-> FALSE,
      lat |-> NaN, lon |-> NaN, tzone |-> NaN, timezone |-> Undefined,
      planets |-> <<>>, houseCusps |-> <<>>,
      sun |-> EmptyString, moon |-> EmptyString, rising |-> EmptyString,
      place |-> [latitude |-> Undefined, longitude |-> Undefined],
      wh |-> [planets |-> <<>>, houses |-> <<>>, ascendant |-> Undefined],
      southNode |-> <<>>,
      subscriberId |-> Undefined, tagIdx |-> 1 ]

InitRun(variants, bodies, tagMaps) ==
    /\ variant \in variants
    /\ body \in bodies
    /\ tagMap \in tagMaps
    /\ pc = "start"
    /\ local = LocalInit
    /\ calls = <<>>
    /\ warnings = <<>>
    /\ response = <<>>

\* a handler's return value
Success(placements) ==
    [statusCode |-> 200, error |-> "", tried |-> <<>>, placements |-> <<placements>>]

Failure(code, message) ==
    [statusCode |-> code, error |-> message, tried |-> <<>>, placements |-> <<>>]

\* one external call with its reply
Call(svc, arg, reply) == [svc |-> svc, arg |-> arg, reply |-> reply]

\* if (!email || !dob || !tob || !birthplace)
missingFields(b) ==
    ~b.email \/ b.dob = <<>> \/ b.tob = <<>> \/ b.birthplace = <<>>

(***************************************************************************)
(* part_000                                                                 *)
(***************************************************************************)
\* parseDobTob: <<>> when it throws, else <<[year, month, day, hour, min]>>
parseDobTob(dob, tob) ==
    LET y == Number(Part(dob, 1))
        m == Number(Part(dob, 2))
        d == Number(Part(dob, 3))
        hh == Number(Part(tob, 1))
        mm == Number(Part(tob, 2))
    IN  IF y.fin /\ m.fin /\ d.fin /\ hh.fin /\ mm.fin
        THEN << [year |-> y.v, month |-> m.v, day |-> d.v, hour |-> hh.v, min |-> mm.v] >>
        ELSE <<>>

\* mmddyyyyFromIso: <<>> when it throws (if (!y || !m || !d)), else <<m, d, y>>
mmddyyyyFromIso(dob) ==
    IF Truthy(Part(dob, 1)) /\ Truthy(Part(dob, 2)) /\ Truthy(Part(dob, 3))
    THEN << <<Part(dob, 2), Part(dob, 3), Part(dob, 1)>> >>
    ELSE <<>>

\* mutant: the city-only candidate is tried before the full input
attemptsOfCityFirst(birthplace) ==
    << trim(beforeFirstComma(birthplace)),
       trim(birthplace),
       trim(beforeFirstComma(birthplace)) \o <<",", " ", "Australia">> >>

\* const attempts = [...]
attemptsOf(birthplace) ==
    << trim(birthplace),
       trim(beforeFirstComma(birthplace)),
       trim(beforeFirstComma(birthplace)) \o <<",", " ", "Australia">> >>

\* the code before the first external call
P0_Begin ==
    /\ variant = Part000
    /\ pc = "start"
    /\ IF missingFields(body)
       THEN /\ response' = <<Failure(400, "Missing required fields (email, dob, tob, birthplace)")>>
            /\ pc' = "done"
            /\ local' = local
       ELSE IF parseDobTob(body.dob, body.tob) = <<>>
       THEN /\ response' = <<Failure(500, "dob must be YYYY-MM-DD and tob must be HH:MM")>>
            /\ pc' = "done"
            /\ local' = local
       ELSE /\ response' = response
            /\ pc' = "geo_details"
            /\ local' = [local EXCEPT !.parsed = parseDobTob(body.dob, body.tob),
                                      !.attempts = attemptsOf(body.birthplace),
                                      !.i = 1]
    /\ UNCHANGED <<variant, body, tagMap, calls, warnings, degVars, houseVars>>

\* replies of astro("geo_details"): it throws (fetch failed or !res.ok), or
\* returns the JSON: null, no geonames, or one geoname
GeoJsonNull == [isNull |-> TRUE, geonames |-> <<>>]
GeoJsonEmpty == [isNull |-> FALSE, geonames |-> <<>>]
GeoJsonFound(latitude, longitude) ==
    [isNull |-> FALSE, geonames |-> << [latitude |-> latitude, longitude |-> longitude] >>]

GeoCoordInputs ==
    { <<NumString(48), NumString(2)>>, <<Num(0 - 37), Num(144)>>, <<Undefined, Num(144)>> }

GeoDetailsReplies ==
    { [threw |-> TRUE, json |-> GeoJsonNull] }
    \cup { [threw |-> FALSE, json |-> j] :
             j \in {GeoJsonNull, GeoJsonEmpty}
                   \cup { GeoJsonFound(c[1], c[2]) : c \in GeoCoordInputs } }

\* geo?.geonames?.length
hasGeonames(geo) == ~geo.isNull /\ Len(geo.geonames) > 0

\* geo?.geonames?.[0]?.latitude and .longitude
g0Latitude(geo) == IF hasGeonames(geo) THEN geo.geonames[1].latitude ELSE Undefined
g0Longitude(geo) == IF hasGeonames(geo) THEN geo.geonames[1].longitude ELSE Undefined

\* one turn of the loop over attempts; after the loop, lat/lon and the date
\* argument of the timezone call
P0_GeoDetails ==
    /\ variant = Part000
    /\ pc = "geo_details"
    /\ \E reply \in GeoDetailsReplies :
          LET place == local.attempts[local.i]
              geo == IF reply.threw THEN local.geo ELSE reply.json
              lastGeoError == reply.threw \/ local.lastGeoError
              loopEnds == (~reply.threw /\ hasGeonames(geo)) \/ local.i = Len(local.attempts)
              lat == Number(g0Latitude(geo))
              lon == Number(g0Longitude(geo))
              afterCall == [local EXCEPT !.geo = geo, !.lastGeoError = lastGeoError]
          IN  /\ calls' = Append(calls, Call("geo_details", place, reply))
              /\ IF ~loopEnds
                 THEN /\ local' = [afterCall EXCEPT !.i = local.i + 1]
                      /\ pc' = pc
                      /\ response' = response
                 ELSE /\ local' = [afterCall EXCEPT !.lat = lat, !.lon = lon]
                      /\ IF ~lat.fin \/ ~lon.fin
                         THEN /\ response' = << [Failure(500, "Birthplace not found. Tried: ")
                                                  EXCEPT !.tried = local.attempts] >>
                              /\ pc' = "done"
                         ELSE IF mmddyyyyFromIso(body.dob) = <<>>
                         THEN /\ response' = <<Failure(500, "dob must be YYYY-MM-DD")>>
                              /\ pc' = "done"
                         ELSE /\ response' = response
                              /\ pc' = "timezone_with_dst"
    /\ UNCHANGED <<variant, body, tagMap, warnings, degVars, houseVars>>

\* replies of astro("timezone_with_dst")
TimezoneReplies ==
    { [threw |-> TRUE, isNull |-> TRUE, timezone |-> Undefined],
      [threw |-> FALSE, isNull |-> TRUE, timezone |-> Undefined] }
    \cup { [threw |-> FALSE, isNull |-> FALSE, timezone |-> tz] :
             tz \in {Num(10), Undefined, Null} }

\* mutant: a timezone lookup that threw is tried once more
P0_TimezoneWithDstRetry ==
    /\ variant = Part000
    /\ pc = "timezone_with_dst"
    /\ \E reply \in TimezoneReplies :
          LET tzone == Number(IF reply.isNull THEN Undefined ELSE reply.timezone)
              retried == \E k \in 1..Len(calls) : calls[k].svc = "timezone_with_dst"
          IN  /\ calls' = Append(calls, Call("timezone_with_dst",
                                           <<local.lat, local.lon, mmddyyyyFromIso(body.dob)[1]>>, reply))
              /\ IF reply.threw /\ ~retried
                 THEN /\ response' = response
                      /\ pc' = pc
                      /\ local' = local
                 ELSE IF reply.threw \/ ~tzone.fin
                 THEN /\ response' = <<Failure(500, "AstrologyAPI timezone_with_dst error")>>
                      /\ pc' = "done"
                      /\ local' = local
                 ELSE /\ response' = response
                      /\ pc' = "planets/tropical"
                      /\ local' = [local EXCEPT !.tzone = tzone]
    /\ UNCHANGED <<variant, body, tagMap, warnings, degVars, houseVars>>

P0_TimezoneWithDst ==
    /\ variant = Part000
    /\ pc = "timezone_with_dst"
    /\ \E reply \in TimezoneReplies :
          LET tzone == Number(IF reply.isNull THEN Undefined ELSE reply.timezone)
          IN  /\ calls' = Append(calls, Call("timezone_with_dst",
                                           <<local.lat, local.lon, mmddyyyyFromIso(body.dob)[1]>>, reply))
              /\ IF reply.threw
                 THEN /\ response' = <<Failure(500, "AstrologyAPI timezone_with_dst error")>>
                      /\ pc' = "done"
                      /\ local' = local
                 ELSE IF ~tzone.fin
                 THEN /\ response' = <<Failure(500, "Timezone lookup failed (no timezone returned)")>>
                      /\ pc' = "done"
                      /\ local' = [local EXCEPT !.tzone = tzone]
                 ELSE /\ response' = response
                      /\ pc' = "planets/tropical"
                      /\ local' = [local EXCEPT !.tzone = tzone]
    /\ UNCHANGED <<variant, body, tagMap, warnings, degVars, houseVars>>

\* the base payload of both chart endpoints
basePayload(l) ==
    [parsed |-> l.parsed, lat |-> l.lat, lon |-> l.lon, tzone |-> l.tzone, house_type |-> "placidus"]

\* replies of astro("planets/tropical"): throws, null, or an array of planets
planetsList(sunSign, moonSign) ==
    << [name |-> "Sun", sign |-> sunSign], [name |-> "Moon", sign |-> moonSign] >>

PlanetsReplies ==
    { [threw |-> TRUE, isNull |-> TRUE, list |-> <<>>],
      [threw |-> FALSE, isNull |-> TRUE, list |-> <<>>],
      [threw |-> FALSE, isNull |-> FALSE, list |-> << [name |-> "Moon", sign |-> Text("scorpio", "lower")] >>] }
    \cup { [threw |-> FALSE, isNull |-> FALSE, list |-> planetsList(ss, ms)] :
             ss \in {Undefined, Text("gemini", "lower"), Text("gemini", "upper")},
             ms \in {Undefined, Text("scorpio", "title")} }

\* (planets || []).find((x) => x?.name === name), then titleCase(p?.sign)
getPlanetSign(planets, name) ==
    LET found == {k \in 1..Len(planets.list) : planets.list[k].name = name}
    IN  IF planets.isNull \/ found = {} THEN titleCase(Undefined)
        ELSE titleCase(planets.list[CHOOSE k \in found : \A j \in found : k <= j].sign)

P0_Planets ==
    /\ variant = Part000
    /\ pc = "planets/tropical"
    /\ \E reply \in PlanetsReplies :
          /\ calls' = Append(calls, Call("planets/tropical", basePayload(local), reply))
          /\ IF reply.threw
             THEN /\ response' = <<Failure(500, "AstrologyAPI planets/tropical error")>>
                  /\ pc' = "done"
                  /\ local' = local
             ELSE /\ response' = response
                  /\ pc' = "house_cusps/tropical"
                  /\ local' = [local EXCEPT !.planets = reply]
    /\ UNCHANGED <<variant, body, tagMap, warnings, degVars, houseVars>>

\* replies of astro("house_cusps/tropical"): throws, null, or {houses: [...]}
HouseCuspsReplies ==
    { [threw |-> TRUE, isNull |-> TRUE, houses |-> <<>>],
      [threw |-> FALSE, isNull |-> TRUE, houses |-> <<>>],
      [threw |-> FALSE, isNull |-> FALSE,
       houses |-> << [house |-> Num(2), sign |-> Text("gemini", "title")] >>] }
    \cup { [threw |-> FALSE, isNull |-> FALSE,
            houses |-> << [house |-> Num(2), sign |-> Text("gemini", "title")],
                          [house |-> h1, sign |-> rs] >>] :
             h1 \in {Num(1), NumString(1)}, rs \in {Undefined, Text("capricorn", "lower")} }

\* (houseCusps?.houses || []).find((h) => Number(h?.house) === 1), then titleCase
getRisingSignFromHouses(houseCusps) ==
    LET found == {k \in 1..Len(houseCusps.houses) :
                    Number(houseCusps.houses[k].house) = Finite(1)}
    IN  IF houseCusps.isNull \/ found = {} THEN titleCase(Undefined)
        ELSE titleCase(houseCusps.houses[CHOOSE k \in found : \A j \in found : k <= j].sign)

\* sun, moon and rising are "" or a non-empty string
P0_HouseCusps ==
    /\ variant = Part000
    /\ pc = "house_cusps/tropical"
    /\ \E reply \in HouseCuspsReplies :
          LET sun == getPlanetSign(local.planets, "Sun")
              moon == getPlanetSign(local.planets, "Moon")
              rising == getRisingSignFromHouses(reply)
          IN  /\ calls' = Append(calls, Call("house_cusps/tropical", basePayload(local), reply))
              /\ IF reply.threw
                 THEN /\ response' = <<Failure(500, "AstrologyAPI house_cusps/tropical error")>>
                      /\ pc' = "done"
                      /\ local' = local
                 ELSE IF ~Truthy(sun) \/ ~Truthy(moon) \/ ~Truthy(rising)
                 THEN /\ response' = <<Failure(500, "Could not extract Sun/Moon/Rising from AstrologyAPI responses")>>
                      /\ pc' = "done"
                      /\ local' = [local EXCEPT !.houseCusps = reply, !.sun = sun,
                                                !.moon = moon, !.rising = rising]
                 ELSE /\ response' = response
                      /\ pc' = "kit/subscribers"
                      /\ local' = [local EXCEPT !.houseCusps = reply, !.sun = sun,
                                                !.moon = moon, !.rising = rising]
    /\ UNCHANGED <<variant, body, tagMap, warnings, degVars, houseVars>>

\* replies of POST /v4/subscribers: fetch rejects, or a response with res.ok and
\* the subscriber id of its JSON
SubscribeReplies ==
    { [rejected |-> TRUE, ok |-> FALSE, id |-> Undefined],
      [rejected |-> FALSE, ok |-> FALSE, id |-> Undefined],
      [rejected |-> FALSE, ok |-> TRUE, id |-> Undefined],
      [rejected |-> FALSE, ok |-> TRUE, id |-> Num(7)] }

\* replies of POST /v4/tags/{tagId}/subscribers/{subscriberId}
TagReplies ==
    { [rejected |-> TRUE, ok |-> FALSE],
      [rejected |-> FALSE, ok |-> FALSE],
      [rejected |-> FALSE, ok |-> TRUE] }

\* const tagKeys = [`SUN_${sun}`, `MOON_${moon}`, `RISING_${rising}`]
tagKeysOf(l) ==
    << tagKey("SUN", l.sun), tagKey("MOON", l.moon), tagKey("RISING", l.rising) >>

\* mutant: a key without a tag id is not skipped
nextMappedTagNoSkip(keys, map, k) == k

\* the loop over tagKeys from index k: the first key with a tag id (if (!tagId)
\* continue), or Len + 1 when the loop runs out
RECURSIVE nextMappedTag(_, _, _)
nextMappedTag(keys, map, k) ==
    IF k > Len(keys) THEN k
    ELSE IF keys[k] \in map THEN k
    ELSE nextMappedTag(keys, map, k + 1)

placementsOf(l) == [sun |-> l.sun, moon |-> l.moon, rising |-> l.rising]

\* mutant: a reply without a subscriber id is taken as a created contact
subscribeErrorNoIdCheck(reply) ==
    IF reply.rejected THEN "fetch failed"
    ELSE IF ~reply.ok THEN "Kit subscribe error: "
    ELSE ""

\* the error part_000 throws on the reply of the subscribe call, "" if none
subscribeError(reply) ==
    IF reply.rejected THEN "fetch failed"
    ELSE IF ~reply.ok THEN "Kit subscribe error: "
    ELSE IF ~Truthy(reply.id) THEN "Kit subscribe failed (no subscriber id). Response: "
    ELSE ""

P0_KitSubscribe ==
    /\ variant = Part000
    /\ pc = "kit/subscribers"
    /\ \E reply \in SubscribeReplies :
          LET first == nextMappedTag(tagKeysOf(local), tagMap, 1)
          IN  /\ calls' = Append(calls, Call("kit/subscribers", <<body.email>>, reply))
              /\ IF subscribeError(reply) # ""
                 THEN /\ response' = <<Failure(500, subscribeError(reply))>>
                      /\ pc' = "done"
                      /\ local' = local
                 ELSE IF first > Len(tagKeysOf(local))
                 THEN /\ response' = <<Success(placementsOf(local))>>
                      /\ pc' = "done"
                      /\ local' = [local EXCEPT !.subscriberId = reply.id, !.tagIdx = first]
                 ELSE /\ response' = response
                      /\ pc' = "kit/tags"
                      /\ local' = [local EXCEPT !.subscriberId = reply.id, !.tagIdx = first]
    /\ UNCHANGED <<variant, body, tagMap, warnings, degVars, houseVars>>

\* one tag call of the loop; a response that is not ok is only warned about
P0_KitTag ==
    /\ variant = Part000
    /\ pc = "kit/tags"
    /\ \E reply \in TagReplies :
          LET key == tagKeysOf(local)[local.tagIdx]
              next == nextMappedTag(tagKeysOf(local), tagMap, local.tagIdx + 1)
          IN  /\ calls' = Append(calls, Call("kit/tags", <<key, local.subscriberId>>, reply))
              /\ IF reply.rejected
                 THEN /\ response' = <<Failure(500, "fetch failed")>>
                      /\ pc' = "done"
                      /\ local' = local
                      /\ warnings' = warnings
                 ELSE /\ warnings' = IF reply.ok THEN warnings
                                     ELSE Append(warnings, <<"Kit tag failed for", key>>)
                      /\ local' = [local EXCEPT !.tagIdx = next]
                      /\ IF next > Len(tagKeysOf(local))
                         THEN /\ response' = <<Success(placementsOf(local))>>
                              /\ pc' = "done"
                         ELSE /\ response' = response
                              /\ pc' = pc
    /\ UNCHANGED <<variant, body, tagMap, degVars, houseVars>>

NextPart000 ==
    \/ P0_Begin
    \/ P0_GeoDetails
    \/ P0_TimezoneWithDst
    \/ P0_Planets
    \/ P0_HouseCusps
    \/ P0_KitSubscribe
    \/ P0_KitTag

InitSpecPart000 == InitRun({Part000}, BodyInputs, TagMapInputs) /\ InitDegIdle /\ InitHouseIdle

SpecPart000 == InitSpecPart000 /\ [][NextPart000]_vars

(***************************************************************************)
(* generate-chart.js, first handler (lines 36-306): AstroAPI geocoding,     *)
(* BigDataCloud timezone, AstroAPI natal chart, Kit.                        *)
(***************************************************************************)
G1_Begin ==
    /\ variant = GenerateChartKit
    /\ pc = "start"
    /\ IF missingFields(body)
       THEN /\ response' = <<Failure(400, "Missing required fields")>>
            /\ pc' = "done"
       ELSE /\ response' = response
            /\ pc' = "geocoding/search"
    /\ UNCHANGED <<variant, body, tagMap, local, calls, warnings, degVars, houseVars>>

\* geo?.data?.[0]
firstPlace(json) ==
    IF hasGeonames(json) THEN json.geonames[1]
    ELSE [latitude |-> Undefined, longitude |-> Undefined]

G1_Geocode ==
    /\ variant = GenerateChartKit
    /\ pc = "geocoding/search"
    /\ \E reply \in GeoDetailsReplies :
          LET place == firstPlace(reply.json)
          IN  /\ calls' = Append(calls, Call("geocoding/search", body.birthplace, reply))
              /\ IF reply.threw
                 THEN /\ response' = <<Failure(500, "AstroAPI geocode: ")>>
                      /\ pc' = "done"
                      /\ local' = local
                 ELSE IF ~Truthy(place.latitude) \/ ~Truthy(place.longitude)
                 THEN /\ response' = <<Failure(400, "Could not find that birthplace.")>>
                      /\ pc' = "done"
                      /\ local' = [local EXCEPT !.place = place]
                 ELSE /\ response' = response
                      /\ pc' = "timezone-by-location"
                      /\ local' = [local EXCEPT !.place = place]
    /\ UNCHANGED <<variant, body, tagMap, warnings, degVars, houseVars>>

\* replies of BigDataCloud timezone-by-location
TimezoneIdReplies ==
    { [threw |-> TRUE, isNull |-> TRUE, ianaTimeId |-> Undefined],
      [threw |-> FALSE, isNull |-> TRUE, ianaTimeId |-> Undefined],
      [threw |-> FALSE, isNull |-> FALSE, ianaTimeId |-> Undefined],
      [threw |-> FALSE, isNull |-> FALSE, ianaTimeId |-> Text("Australia/Melbourne", "title")] }

G1_Timezone ==
    /\ variant = GenerateChartKit
    /\ pc = "timezone-by-location"
    /\ \E reply \in TimezoneIdReplies :
          LET timezone == IF reply.isNull THEN Undefined ELSE reply.ianaTimeId
          IN  /\ calls' = Append(calls, Call("timezone-by-location",
                                           <<local.place.latitude, local.place.longitude>>, reply))
              /\ IF reply.threw
                 THEN /\ response' = <<Failure(500, "BigDataCloud timezone: ")>>
                      /\ pc' = "done"
                      /\ local' = local
                 ELSE IF ~Truthy(timezone)
                 THEN /\ response' = <<Failure(500, "Could not resolve timezone from location.")>>
                      /\ pc' = "done"
                      /\ local' = [local EXCEPT !.timezone = timezone]
                 ELSE /\ response' = response
                      /\ pc' = "calc/natal"
                      /\ local' = [local EXCEPT !.timezone = timezone]
    /\ UNCHANGED <<variant, body, tagMap, warnings, degVars, houseVars>>

\* replies of a natal chart endpoint, by the three signs the handler reads
NatalReplies ==
    { [threw |-> TRUE, sun |-> Undefined, moon |-> Undefined, rising |-> Undefined] }
    \cup { [threw |-> FALSE, sun |-> ss, moon |-> ms, rising |-> rs] :
             ss \in {Undefined, Text("gemini", "lower"), Text("gemini", "upper")},
             ms \in {Undefined, Text("scorpio", "title")},
             rs \in {Undefined, Text("capricorn", "lower")} }

G1_Natal ==
    /\ variant = GenerateChartKit
    /\ pc = "calc/natal"
    /\ \E reply \in NatalReplies :
          LET sun == titleCase(reply.sun)
              moon == titleCase(reply.moon)
              rising == titleCase(reply.rising)
              extracted == [local EXCEPT !.sun = sun, !.moon = moon, !.rising = rising]
          IN  /\ calls' = Append(calls, Call("calc/natal",
                                           <<body.dob, body.tob, local.place, local.timezone>>, reply))
              /\ IF reply.threw
                 THEN /\ response' = <<Failure(500, "AstroAPI natal: ")>>
                      /\ pc' = "done"
                      /\ local' = local
                 ELSE IF ~Truthy(sun) \/ ~Truthy(moon) \/ ~Truthy(rising)
                 THEN /\ response' = <<Failure(500, "Chart calculated but could not extract Sun/Moon/Rising.")>>
                      /\ pc' = "done"
                      /\ local' = extracted
                 ELSE /\ response' = response
                      /\ pc' = "kit/subscribers"
                      /\ local' = extracted
    /\ UNCHANGED <<variant, body, tagMap, warnings, degVars, houseVars>>

\* fetchJson throws when fetch rejects or the response is not ok
fetchJsonThrows(reply) == reply.rejected \/ ~reply.ok

G1_KitSubscribe ==
    /\ variant = GenerateChartKit
    /\ pc = "kit/subscribers"
    /\ \E reply \in SubscribeReplies :
          LET first == nextMappedTag(tagKeysOf(local), tagMap, 1)
          IN  /\ calls' = Append(calls, Call("kit/subscribers", <<body.email>>, reply))
              /\ IF fetchJsonThrows(reply)
                 THEN /\ response' = <<Failure(500, "Kit create subscriber: ")>>
                      /\ pc' = "done"
                      /\ local' = local
                 ELSE IF ~Truthy(reply.id)
                 THEN /\ response' = <<Failure(500, "Kit subscriber created but no subscriber ID returned.")>>
                      /\ pc' = "done"
                      /\ local' = [local EXCEPT !.subscriberId = reply.id]
                 ELSE IF first > Len(tagKeysOf(local))
                 THEN /\ response' = <<Success(placementsOf(local))>>
                      /\ pc' = "done"
                      /\ local' = [local EXCEPT !.subscriberId = reply.id, !.tagIdx = first]
                 ELSE /\ response' = response
                      /\ pc' = "kit/tags"
                      /\ local' = [local EXCEPT !.subscriberId = reply.id, !.tagIdx = first]
    /\ UNCHANGED <<variant, body, tagMap, warnings, degVars, houseVars>>

\* one tag call of the loop; a failed call is rethrown as `Kit tag (${key})`
G1_KitTag ==
    /\ variant = GenerateChartKit
    /\ pc = "kit/tags"
    /\ \E reply \in TagReplies :
          LET key == tagKeysOf(local)[local.tagIdx]
              next == nextMappedTag(tagKeysOf(local), tagMap, local.tagIdx + 1)
          IN  /\ calls' = Append(calls, Call("kit/tags", <<key, local.subscriberId>>, reply))
              /\ IF fetchJsonThrows(reply)
                 THEN /\ response' = <<Failure(500, "Kit tag (key): ")>>
                      /\ pc' = "done"
                      /\ local' = local
                 ELSE /\ local' = [local EXCEPT !.tagIdx = next]
                      /\ IF next > Len(tagKeysOf(local))
                         THEN /\ response' = <<Success(placementsOf(local))>>
                              /\ pc' = "done"
                         ELSE /\ response' = response
                              /\ pc' = pc
    /\ UNCHANGED <<variant, body, tagMap, warnings, degVars, houseVars>>

NextGenerateChartKit ==
    \/ G1_Begin
    \/ G1_Geocode
    \/ G1_Timezone
    \/ G1_Natal
    \/ G1_KitSubscribe
    \/ G1_KitTag

(***************************************************************************)
(* generate-chart.js, second handler (lines 307-368): a fixed test answer.  *)
(***************************************************************************)
\* if (!email || !dob || !tob || !birthplace || !timezone)
missingFieldsOrTimezone(b) == missingFields(b) \/ ~Truthy(b.timezone)

\* the temporary test response with its fixed placements
G2_Respond ==
    /\ variant = GenerateChartStub
    /\ pc = "start"
    /\ response' = IF missingFieldsOrTimezone(body)
                   THEN <<Failure(400, "Missing required fields")>>
                   ELSE <<Success([sun |-> Text("virgo", "title"),
                                   moon |-> Text("scorpio", "title"),
                                   rising |-> Text("capricorn", "title")])>>
    /\ pc' = "done"
    /\ UNCHANGED <<variant, body, tagMap, local, calls, warnings, degVars, houseVars>>

NextGenerateChartStub == G2_Respond

(***************************************************************************)
(* generate-chart.js, fourth handler (lines 695-897): AstroAPI geocoding,   *)
(* natal chart with the timezone of the request, Kit.  A call that fails    *)
(* throws out of fetchJson to the handler's catch.                          *)
(***************************************************************************)
G4_Begin ==
    /\ variant = GenerateChartKitTimezone
    /\ pc = "start"
    /\ IF missingFieldsOrTimezone(body)
       THEN /\ response' = <<Failure(400, "Missing required fields")>>
            /\ pc' = "done"
       ELSE /\ response' = response
            /\ pc' = "geocoding/search"
    /\ UNCHANGED <<variant, body, tagMap, local, calls, warnings, degVars, houseVars>>

G4_Geocode ==
    /\ variant = GenerateChartKitTimezone
    /\ pc = "geocoding/search"
    /\ \E reply \in GeoDetailsReplies :
          LET place == firstPlace(reply.json)
          IN  /\ calls' = Append(calls, Call("geocoding/search", body.birthplace, reply))
              /\ IF reply.threw
                 THEN /\ response' = <<Failure(500, "Request failed")>>
                      /\ pc' = "done"
                      /\ local' = local
                 ELSE IF ~Truthy(place.latitude) \/ ~Truthy(place.longitude)
                 THEN /\ response' = <<Failure(400, "Could not find that birthplace.")>>
                      /\ pc' = "done"
                      /\ local' = [local EXCEPT !.place = place]
                 ELSE /\ response' = response
                      /\ pc' = "calc/natal"
                      /\ local' = [local EXCEPT !.place = place]
    /\ UNCHANGED <<variant, body, tagMap, warnings, degVars, houseVars>>

G4_Natal ==
    /\ variant = GenerateChartKitTimezone
    /\ pc = "calc/natal"
    /\ \E reply \in NatalReplies :
          LET sun == titleCase(reply.sun)
              moon == titleCase(reply.moon)
              rising == titleCase(reply.rising)
              extracted == [local EXCEPT !.sun = sun, !.moon = moon, !.rising = rising]
          IN  /\ calls' = Append(calls, Call("calc/natal",
                                           <<body.dob, body.tob, local.place, body.timezone>>, reply))
              /\ IF reply.threw
                 THEN /\ response' = <<Failure(500, "Request failed")>>
                      /\ pc' = "done"
                      /\ local' = local
                 ELSE IF ~Truthy(sun) \/ ~Truthy(moon) \/ ~Truthy(rising)
                 THEN /\ response' = <<Failure(500, "Natal chart calculated but could not extract Sun/Moon/Rising. Check AstroAPI response format.")>>
                      /\ pc' = "done"
                      /\ local' = extracted
                 ELSE /\ response' = response
                      /\ pc' = "kit/subscribers"
                      /\ local' = extracted
    /\ UNCHANGED <<variant, body, tagMap, warnings, degVars, houseVars>>

G4_KitSubscribe ==
    /\ variant = GenerateChartKitTimezone
    /\ pc = "kit/subscribers"
    /\ \E reply \in SubscribeReplies :
          LET first == nextMappedTag(tagKeysOf(local), tagMap, 1)
          IN  /\ calls' = Append(calls, Call("kit/subscribers", <<body.email>>, reply))
              /\ IF fetchJsonThrows(reply)
                 THEN /\ response' = <<Failure(500, "Request failed")>>
                      /\ pc' = "done"
                      /\ local' = local
                 ELSE IF ~Truthy(reply.id)
                 THEN /\ response' = <<Failure(500, "Kit subscriber created but no subscriber ID returned.")>>
                      /\ pc' = "done"
                      /\ local' = [local EXCEPT !.subscriberId = reply.id]
                 ELSE IF first > Len(tagKeysOf(local))
                 THEN /\ response' = <<Success(placementsOf(local))>>
                      /\ pc' = "done"
                      /\ local' = [local EXCEPT !.subscriberId = reply.id, !.tagIdx = first]
                 ELSE /\ response' = response
                      /\ pc' = "kit/tags"
                      /\ local' = [local EXCEPT !.subscriberId = reply.id, !.tagIdx = first]
    /\ UNCHANGED <<variant, body, tagMap, warnings, degVars, houseVars>>

\* one tag call of the loop; a failed call ends the handler
G4_KitTag ==
    /\ variant = GenerateChartKitTimezone
    /\ pc = "kit/tags"
    /\ \E reply \in TagReplies :
          LET key == tagKeysOf(local)[local.tagIdx]
              next == nextMappedTag(tagKeysOf(local), tagMap, local.tagIdx + 1)
          IN  /\ calls' = Append(calls, Call("kit/tags", <<key, local.subscriberId>>, reply))
              /\ IF fetchJsonThrows(reply)
                 THEN /\ response' = <<Failure(500, "Request failed")>>
                      /\ pc' = "done"
                      /\ local' = local
                 ELSE /\ local' = [local EXCEPT !.tagIdx = next]
                      /\ IF next > Len(tagKeysOf(local))
                         THEN /\ response' = <<Success(placementsOf(local))>>
                              /\ pc' = "done"
                         ELSE /\ response' = response
                              /\ pc' = pc
    /\ UNCHANGED <<variant, body, tagMap, warnings, degVars, houseVars>>

NextGenerateChartKitTimezone ==
    \/ G4_Begin
    \/ G4_Geocode
    \/ G4_Natal
    \/ G4_KitSubscribe
    \/ G4_KitTag

\* part_000 and the handlers of generate-chart.js that answer with the
\* placements {sun, moon, rising}: the first, the second and the fourth
NextNotify ==
    \/ NextPart000
    \/ NextGenerateChartKit
    \/ NextGenerateChartStub
    \/ NextGenerateChartKitTimezone

InitSpecNotify ==
    /\ \/ InitRun({Part000, GenerateChartKit}, BodyInputs, TagMapInputs)
       \/ InitRun({GenerateChartStub, GenerateChartKitTimezone}, TimezoneBodyInputs, TagMapInputs)
    /\ InitDegIdle
    /\ InitHouseIdle

SpecNotify == InitSpecNotify /\ [][NextNotify]_vars

(***************************************************************************)
(* part_001: Nominatim, BigDataCloud timezone and offset, AstrologyAPI      *)
(* western_chart_data, Kit.                                                 *)
(***************************************************************************)
\* missing fields throw; dob.split("-").map(Number) and tob.split(":").map(Number)
\* are destructured unchecked: Number is applied to the parts that exist, and a
\* name past the end of the mapped array is undefined
P1_Begin ==
    LET mapped(parts, k) == IF k <= Len(parts) THEN Number(parts[k]) ELSE Undefined
    IN
    /\ variant = Part001
    /\ pc = "start"
    /\ IF missingFields(body)
       THEN /\ response' = <<Failure(500, "Missing required fields")>>
            /\ pc' = "done"
            /\ local' = local
       ELSE /\ response' = response
            /\ pc' = "nominatim/search"
            /\ local' = [local EXCEPT !.parsed =
                            << [year |-> mapped(body.dob, 1), month |-> mapped(body.dob, 2),
                                day |-> mapped(body.dob, 3), hour |-> mapped(body.tob, 1),
                                min |-> mapped(body.tob, 2)] >>]
    /\ UNCHANGED <<variant, body, tagMap, calls, warnings, degVars, houseVars>>

\* replies of fetchText: fetch rejects, or a response with res.ok and a text;
\* parses is whether JSON.parse(text) and the property reads after it succeed
NominatimReplies ==
    { [rejected |-> TRUE, ok |-> FALSE, parses |-> FALSE, json |-> GeoJsonEmpty],
      [rejected |-> FALSE, ok |-> FALSE, parses |-> FALSE, json |-> GeoJsonEmpty],
      [rejected |-> FALSE, ok |-> TRUE, parses |-> FALSE, json |-> GeoJsonEmpty],
      [rejected |-> FALSE, ok |-> TRUE, parses |-> TRUE, json |-> GeoJsonEmpty] }
    \cup { [rejected |-> FALSE, ok |-> TRUE, parses |-> TRUE, json |-> GeoJsonFound(c[1], c[2])] :
             c \in GeoCoordInputs }

\* const geo = JSON.parse(geoText)[0]; lat and lon are Number(geo.lat), Number(geo.lon)
P1_Geocode ==
    /\ variant = Part001
    /\ pc = "nominatim/search"
    /\ \E reply \in NominatimReplies :
          /\ calls' = Append(calls, Call("nominatim/search", body.birthplace, reply))
          /\ IF reply.rejected
             THEN /\ response' = <<Failure(500, "fetch failed")>>
                  /\ pc' = "done"
                  /\ local' = local
             ELSE IF ~reply.ok
             THEN /\ response' = <<Failure(500, "Geocoding failed")>>
                  /\ pc' = "done"
                  /\ local' = local
             ELSE IF ~reply.parses
             THEN /\ response' = <<Failure(500, "Unexpected token in JSON")>>
                  /\ pc' = "done"
                  /\ local' = local
             ELSE IF ~hasGeonames(reply.json)
             THEN /\ response' = <<Failure(500, "Birthplace not found")>>
                  /\ pc' = "done"
                  /\ local' = local
             ELSE /\ response' = response
                  /\ pc' = "timezone-by-location"
                  /\ local' = [local EXCEPT !.lat = Number(reply.json.geonames[1].latitude),
                                            !.lon = Number(reply.json.geonames[1].longitude)]
    /\ UNCHANGED <<variant, body, tagMap, warnings, degVars, houseVars>>

\* tz.ianaTimeId of JSON.parse(tzText); a null JSON throws on the property read
P1_Timezone ==
    /\ variant = Part001
    /\ pc = "timezone-by-location"
    /\ \E reply \in TimezoneIdReplies :
          /\ calls' = Append(calls, Call("timezone-by-location", <<local.lat, local.lon>>, reply))
          /\ IF reply.threw
             THEN /\ response' = <<Failure(500, "Timezone lookup failed")>>
                  /\ pc' = "done"
                  /\ local' = local
             ELSE IF reply.isNull
             THEN /\ response' = <<Failure(500, "Cannot read properties of null")>>
                  /\ pc' = "done"
                  /\ local' = local
             ELSE IF ~Truthy(reply.ianaTimeId)
             THEN /\ response' = <<Failure(500, "Timezone not resolved")>>
                  /\ pc' = "done"
                  /\ local' = local
             ELSE /\ response' = response
                  /\ pc' = "timezone-info"
                  /\ local' = [local EXCEPT !.timezone = reply.ianaTimeId]
    /\ UNCHANGED <<variant, body, tagMap, warnings, degVars, houseVars>>

SecondsPerHour == 3600

\* replies of BigDataCloud timezone-info
TimezoneInfoReplies ==
    { [threw |-> TRUE, isNull |-> TRUE, utcOffsetSeconds |-> Undefined],
      [threw |-> FALSE, isNull |-> TRUE, utcOffsetSeconds |-> Undefined],
      [threw |-> FALSE, isNull |-> FALSE, utcOffsetSeconds |-> Undefined],
      [threw |-> FALSE, isNull |-> FALSE, utcOffsetSeconds |-> Num(36000)],
      [threw |-> FALSE, isNull |-> FALSE, utcOffsetSeconds |-> Num(0 - 16200)] }

\* offsetSeconds / 3600
offsetHours(offsetSeconds) ==
    IF Number(offsetSeconds).fin
    THEN Quotient(Number(offsetSeconds).v, SecondsPerHour)
    ELSE NaN

P1_TimezoneInfo ==
    /\ variant = Part001
    /\ pc = "timezone-info"
    /\ \E reply \in TimezoneInfoReplies :
          /\ calls' = Append(calls, Call("timezone-info", <<local.timezone, local.parsed[1]>>, reply))
          /\ IF reply.threw
             THEN /\ response' = <<Failure(500, "Timezone offset failed")>>
                  /\ pc' = "done"
                  /\ local' = local
             ELSE IF reply.isNull
             THEN /\ response' = <<Failure(500, "Cannot read properties of null")>>
                  /\ pc' = "done"
                  /\ local' = local
             ELSE /\ response' = response
                  /\ pc' = "western_chart_data"
                  /\ local' = [local EXCEPT !.tzone = offsetHours(reply.utcOffsetSeconds)]
    /\ UNCHANGED <<variant, body, tagMap, warnings, degVars, houseVars>>

P1_WesternChartData ==
    /\ variant = Part001
    /\ pc = "western_chart_data"
    /\ \E reply \in NatalReplies :
          LET sun == titleCase(reply.sun)
              moon == titleCase(reply.moon)
              rising == titleCase(reply.rising)
              extracted == [local EXCEPT !.sun = sun, !.moon = moon, !.rising = rising]
          IN  /\ calls' = Append(calls, Call("western_chart_data", basePayload(local), reply))
              /\ IF reply.threw
                 THEN /\ response' = <<Failure(500, "AstrologyAPI error: ")>>
                      /\ pc' = "done"
                      /\ local' = local
                 ELSE IF ~Truthy(sun) \/ ~Truthy(moon) \/ ~Truthy(rising)
                 THEN /\ response' = <<Failure(500, "Could not extract Sun / Moon / Rising")>>
                      /\ pc' = "done"
                      /\ local' = extracted
                 ELSE /\ response' = response
                      /\ pc' = "kit/subscribers"
                      /\ local' = extracted
    /\ UNCHANGED <<variant, body, tagMap, warnings, degVars, houseVars>>

\* replies of the subscribe call as part_001 reads them: JSON.parse(kitText)
\* .subscriber.id throws when the JSON has no subscriber object
SubscribeTextReplies ==
    { [rejected |-> r.rejected, ok |-> r.ok, id |-> r.id, hasSubscriber |-> hs] :
        r \in SubscribeReplies, hs \in BOOLEAN }

P1_KitSubscribe ==
    /\ variant = Part001
    /\ pc = "kit/subscribers"
    /\ \E reply \in {r \in SubscribeTextReplies : (r.id # Undefined) => r.hasSubscriber} :
          LET first == nextMappedTag(tagKeysOf(local), tagMap, 1)
          IN  /\ calls' = Append(calls, Call("kit/subscribers", <<body.email>>, reply))
              /\ IF reply.rejected
                 THEN /\ response' = <<Failure(500, "fetch failed")>>
                      /\ pc' = "done"
                      /\ local' = local
                 ELSE IF ~reply.ok
                 THEN /\ response' = <<Failure(500, "Kit error: ")>>
                      /\ pc' = "done"
                      /\ local' = local
                 ELSE IF ~reply.hasSubscriber
                 THEN /\ response' = <<Failure(500, "Cannot read properties of undefined (reading 'id')")>>
                      /\ pc' = "done"
                      /\ local' = local
                 ELSE IF first > Len(tagKeysOf(local))
                 THEN /\ response' = <<Success(placementsOf(local))>>
                      /\ pc' = "done"
                      /\ local' = [local EXCEPT !.subscriberId = reply.id, !.tagIdx = first]
                 ELSE /\ response' = response
                      /\ pc' = "kit/tags"
                      /\ local' = [local EXCEPT !.subscriberId = reply.id, !.tagIdx = first]
    /\ UNCHANGED <<variant, body, tagMap, warnings, degVars, houseVars>>

\* one tag call of the loop; the response is not looked at
P1_KitTag ==
    /\ variant = Part001
    /\ pc = "kit/tags"
    /\ \E reply \in TagReplies :
          LET key == tagKeysOf(local)[local.tagIdx]
              next == nextMappedTag(tagKeysOf(local), tagMap, local.tagIdx + 1)
          IN  /\ calls' = Append(calls, Call("kit/tags", <<key, local.subscriberId>>, reply))
              /\ IF reply.rejected
                 THEN /\ response' = <<Failure(500, "fetch failed")>>
                      /\ pc' = "done"
                      /\ local' = local
                 ELSE /\ local' = [local EXCEPT !.tagIdx = next]
                      /\ IF next > Len(tagKeysOf(local))
                         THEN /\ response' = <<Success(placementsOf(local))>>
                              /\ pc' = "done"
                         ELSE /\ response' = response
                              /\ pc' = pc
    /\ UNCHANGED <<variant, body, tagMap, warnings, degVars, houseVars>>

NextPart001 ==
    \/ P1_Begin
    \/ P1_Geocode
    \/ P1_Timezone
    \/ P1_TimezoneInfo
    \/ P1_WesternChartData
    \/ P1_KitSubscribe
    \/ P1_KitTag

\* the two handlers whose stages the ordering claim cites
NextStages == NextPart000 \/ NextPart001

InitSpecStages == InitRun({Part000, Part001}, BodyInputs, TagMapInputs) /\ InitDegIdle /\ InitHouseIdle

SpecStages == InitSpecStages /\ [][NextStages]_vars

(***************************************************************************)
(* generate-chart.js, third handler (lines 369-694): BigDataCloud geocode   *)
(* and timezone, AstrologyAPI western_horoscope, buildPlacements.           *)
(* Names and signs are string values: Text(w, c) with w the letters in      *)
(* lower case and c the casing ("lower", "upper", "title" for a leading     *)
(* capital, "words" for a capital at the start of each word).               *)
(***************************************************************************)
\* what a call of a method the value does not have throws
TypeError == [t |-> "TypeError", n |-> 0, word |-> "toLowerCase is not a function", casing |-> ""]

\* the outcome of an array-valued step that threw
Thrown == << TypeError >>

\* String.prototype.toLowerCase: defined on strings only; a call on any other
\* value throws
toLowerCase(str) ==
    CASE str.t = "text" -> Text(str.word, "lower")
      [] str.t \in {"emptystring", "numstring"} -> str
      [] OTHER -> TypeError

\* x || ""
orEmpty(x) == IF Truthy(x) THEN x ELSE EmptyString

\* the lower-case spelling of signs[k]
signWords ==
    << "aries", "taurus", "gemini", "cancer", "leo", "virgo",
       "libra", "scorpio", "sagittarius", "capricorn", "aquarius", "pisces" >>

\* the string value of the sign name degreeToSign returned
signValue(name) ==
    Text(signWords[CHOOSE k \in 1..Len(signs) : signs[k] = name], "title")

\* normalizeDeg(Number(deg) + 180) on a JavaScript number: NaN + 180 is NaN and
\* passes both loops
southDegOfNumber(x) ==
    IF x.fin THEN Finite(southDegOf(x.v)) ELSE NaN

\* degreeToSign on a JavaScript number: signs[Math.floor(NaN / 30)] is undefined
degreeToSignOfNumber(x) ==
    IF x.fin THEN signValue(degreeToSign(x.v)) ELSE Undefined

\* getHouseFromCusps on a JavaScript number: every comparison with NaN is
\* false, no segment holds it and the fallback is returned
getHouseFromCuspsOfNumber(x, cusps) ==
    IF x.fin THEN getHouseFromCusps(x.v, cusps) ELSE 1

\* Array.prototype.find from index k: the callback is applied to the entries
\* in order until one matches; it throws on a name that is truthy and no string
RECURSIVE pickPlanetFrom(_, _, _)
pickPlanetFrom(planets, name, k) ==
    IF k > Len(planets) THEN <<>>
    ELSE LET lowered == toLowerCase(orEmpty(planets[k].name))
         IN  IF lowered = TypeError THEN Thrown
             ELSE IF lowered = toLowerCase(name) THEN << planets[k] >>
             ELSE pickPlanetFrom(planets, name, k + 1)

\* planets.find(p => (p?.name || "").toLowerCase() === name.toLowerCase()):
\* <<>> for undefined, <<the planet>> for a match, Thrown for a TypeError
pickPlanet(planets, name) ==
    pickPlanetFrom(planets, name, 1)

\* a ?? b
coalesce(a, b) == IF a.t \in {"undefined", "null"} THEN b ELSE a

\* p?.full_degree ?? p?.fullDegree ?? rest
fullDegreeOf(picked, rest) ==
    IF picked = <<>> THEN rest
    ELSE coalesce(coalesce(picked[1].full_degree, picked[1].fullDegree), rest)

SouthNodeLabel == Text("south node", "words")
NorthNodeLabel == Text("north node", "words")

\* mutant: the South Node mirrors the North Node's own sign and house
southNodeMirrored(node, cusps) ==
    IF node = Thrown THEN Thrown
    ELSE LET nodeFullDeg == fullDegreeOf(node, Null)
         IN  IF nodeFullDeg = Null THEN <<>>
             ELSE << [name |-> SouthNodeLabel,
                      full_degree |-> southDegOfNumber(Number(nodeFullDeg)),
                      sign |-> node[1].sign,
                      house |-> node[1].house] >>

\* const southNode = southDeg != null ? {...} : null (<<>> for null); node is
\* the outcome of pickPlanet(planets, "Node")
southNodeOf(node, cusps) ==
    IF node = Thrown THEN Thrown
    ELSE LET nodeFullDeg == fullDegreeOf(node, Null)
             oppositeDeg == southDegOfNumber(Number(nodeFullDeg))
         IN  IF nodeFullDeg = Null THEN <<>>
             ELSE << [name |-> SouthNodeLabel,
                      full_degree |-> oppositeDeg,
                      sign |-> degreeToSignOfNumber(oppositeDeg),
                      house |-> Num(getHouseFromCuspsOfNumber(oppositeDeg, cusps))] >>

order ==
    << Text("sun", "title"), Text("moon", "title"), Text("mercury", "title"),
       Text("venus", "title"), Text("mars", "title"), Text("jupiter", "title"),
       Text("saturn", "title"), Text("uranus", "title"), Text("neptune", "title"),
       Text("pluto", "title"), Text("chiron", "title"), Text("node", "title") >>

\* Number(p.house) || (p.full_degree != null ? getHouseFromCusps(...) : null)
houseOfPlanet(p, cusps) ==
    IF Number(p.house).fin /\ Number(p.house).v # 0 THEN Num(Number(p.house).v)
    ELSE IF p.full_degree.t \notin {"undefined", "null"}
         THEN Num(getHouseFromCuspsOfNumber(Number(p.full_degree), cusps))
         ELSE Null

\* the for loop over order from index k: the entries pushed, or Thrown when
\* one of the lookups of the loop throws
RECURSIVE listFrom(_, _, _)
listFrom(planets, cusps, k) ==
    IF k > Len(order) THEN <<>>
    ELSE LET p == pickPlanet(planets, order[k])
             rest == listFrom(planets, cusps, k + 1)
         IN  IF p = Thrown THEN Thrown
             ELSE IF rest = Thrown THEN Thrown
             ELSE (IF p = <<>> THEN <<>>
                   ELSE << [name |-> IF order[k] = Text("node", "title") THEN NorthNodeLabel ELSE order[k],
                            sign |-> orEmpty(p[1].sign),
                            house |-> houseOfPlanet(p[1], cusps)] >>)
                  \o rest

\* risingSign: the Ascendant planet's sign, else the sign of the ascendant
\* degree (undefined for a degree that is no number); TypeError when the
\* lookup of the Ascendant throws
risingSignOf(wh) ==
    LET ascPlanet == pickPlanet(wh.planets, Text("ascendant", "title"))
        ascDeg == fullDegreeOf(ascPlanet, coalesce(wh.ascendant, Null))
    IN  IF ascPlanet = Thrown THEN TypeError
        ELSE IF ascPlanet # <<>> /\ Truthy(ascPlanet[1].sign) THEN ascPlanet[1].sign
        ELSE IF ascDeg # Null THEN degreeToSignOfNumber(Number(ascDeg))
        ELSE EmptyString

\* sun?.sign || ""
signOfPicked(picked) == IF picked = <<>> THEN EmptyString ELSE orEmpty(picked[1].sign)

\* the returned {big3, list}, or TypeError when a lookup or one of the three
\* toLowerCase calls of the return statement throws
buildPlacements(wh) ==
    LET sun == pickPlanet(wh.planets, Text("sun", "title"))
        moon == pickPlanet(wh.planets, Text("moon", "title"))
        ascPlanet == pickPlanet(wh.planets, Text("ascendant", "title"))
        node == pickPlanet(wh.planets, Text("node", "title"))
        chiron == pickPlanet(wh.planets, Text("chiron", "title"))
        southNode == southNodeOf(node, wh.houses)
        list == listFrom(wh.planets, wh.houses, 1)
        big3 == [ sun |-> toLowerCase(signOfPicked(sun)),
                  moon |-> toLowerCase(signOfPicked(moon)),
                  rising |-> toLowerCase(orEmpty(risingSignOf(wh))) ]
    IN  IF Thrown \in {sun, moon, ascPlanet, node, chiron} \/ list = Thrown THEN TypeError
        ELSE IF TypeError \in {big3.sun, big3.moon, big3.rising} THEN TypeError
        ELSE [ big3 |-> big3,
               list |-> list
                        \o (IF southNode = <<>> THEN <<>>
                            ELSE << [name |-> SouthNodeLabel,
                                     sign |-> southNode[1].sign,
                                     house |-> southNode[1].house] >>) ]

\* the requests of this handler: dob and tob are only passed through Number
PlacementsBodyInputs ==
    { b \in BodyInputs :
        /\ b.dob \in { <<NumString(1990), NumString(6), NumString(15)>>, <<Text("june", "lower")>>, <<>> }
        /\ b.tob \in { <<NumString(14), NumString(30)>>, <<>> }
        /\ b.birthplace \in { <<"Melbourne", ",", " ", "Australia">>, <<>> } }

G3_Begin ==
    /\ variant = GenerateChartPlacements
    /\ pc = "start"
    /\ IF missingFields(body)
       THEN /\ response' = <<Failure(400, "Missing required fields")>>
            /\ pc' = "done"
            /\ local' = local
       ELSE /\ response' = response
            /\ pc' = "geocode-city"
            /\ local' = [local EXCEPT !.parsed =
                            << [year |-> Number(Part(body.dob, 1)), month |-> Number(Part(body.dob, 2)),
                                day |-> Number(Part(body.dob, 3)), hour |-> Number(Part(body.tob, 1)),
                                min |-> Number(Part(body.tob, 2))] >>]
    /\ UNCHANGED <<variant, body, tagMap, calls, warnings, degVars, houseVars>>

\* one location object of a geocode-city reply, by the keys bdcGeocode reads
BdcLoc(latitude, lat, longitude, lng, lon) ==
    [latitude |-> latitude, lat |-> lat, longitude |-> longitude, lng |-> lng, lon |-> lon]

NoLoc == BdcLoc(Undefined, Undefined, Undefined, Undefined, Undefined)

\* replies of geocode-city: threw is a rejected fetch, a response that is not
\* ok or a body that is no JSON; first is data.data[0] (<<>> when there is
\* none) and top the keys of the reply object itself
BdcGeocodeReplies ==
    { [threw |-> TRUE, isNull |-> TRUE, first |-> <<>>, top |-> NoLoc],
      [threw |-> FALSE, isNull |-> TRUE, first |-> <<>>, top |-> NoLoc],
      [threw |-> FALSE, isNull |-> FALSE, first |-> <<>>, top |-> NoLoc],
      [threw |-> FALSE, isNull |-> FALSE, first |-> <<>>,
       top |-> BdcLoc(Num(0 - 37), Undefined, Num(144), Undefined, Undefined)],
      [threw |-> FALSE, isNull |-> FALSE,
       first |-> << BdcLoc(Undefined, Num(0 - 37), Undefined, Num(144), Undefined) >>, top |-> NoLoc],
      [threw |-> FALSE, isNull |-> FALSE,
       first |-> << BdcLoc(Num(48), Undefined, Undefined, Undefined, Num(2)) >>,
       top |-> BdcLoc(Num(0 - 37), Undefined, Num(144), Undefined, Undefined)],
      [threw |-> FALSE, isNull |-> FALSE,
       first |-> << BdcLoc(NumString(48), Undefined, NumString(2), Undefined, Undefined) >>, top |-> NoLoc],
      [threw |-> FALSE, isNull |-> FALSE,
       first |-> << BdcLoc(Num(48), Undefined, Undefined, Undefined, Undefined) >>, top |-> NoLoc] }

\* const loc = (data?.data && data.data[0]) || data
bdcLoc(data) == IF data.first # <<>> THEN data.first[1] ELSE data.top

\* loc?.latitude ?? loc?.lat
bdcLat(loc) == coalesce(loc.latitude, loc.lat)

\* loc?.longitude ?? loc?.lng ?? loc?.lon
bdcLon(loc) == coalesce(coalesce(loc.longitude, loc.lng), loc.lon)

\* bdcGeocode: accepted only with a numeric lat and lon
G3_Geocode ==
    /\ variant = GenerateChartPlacements
    /\ pc = "geocode-city"
    /\ \E reply \in BdcGeocodeReplies :
          LET lat == bdcLat(bdcLoc(reply))
              lon == bdcLon(bdcLoc(reply))
          IN  /\ calls' = Append(calls, Call("geocode-city", body.birthplace, reply))
              /\ IF reply.threw
                 THEN /\ response' = <<Failure(500, "BigDataCloud geocode failed")>>
                      /\ pc' = "done"
                      /\ local' = local
                 ELSE IF lat.t # "number" \/ lon.t # "number"
                 THEN /\ response' = <<Failure(500, "Birthplace not found. Try 'City, Country' (e.g. Melbourne, Australia).")>>
                      /\ pc' = "done"
                      /\ local' = local
                 ELSE /\ response' = response
                      /\ pc' = "timezone-by-location"
                      /\ local' = [local EXCEPT !.lat = Number(lat), !.lon = Number(lon)]
    /\ UNCHANGED <<variant, body, tagMap, warnings, degVars, houseVars>>

\* replies of timezone-by-location as bdcTimezone reads them: current and
\* offset are localTimeOffset.currentLocalTimeOffset and
\* localTimeOffset.localTimeOffset
BdcTimezoneReplies ==
    { [threw |-> TRUE, isNull |-> TRUE, current |-> Undefined, offset |-> Undefined,
       utcOffsetSeconds |-> Undefined],
      [threw |-> FALSE, isNull |-> TRUE, current |-> Undefined, offset |-> Undefined,
       utcOffsetSeconds |-> Undefined],
      [threw |-> FALSE, isNull |-> FALSE, current |-> Undefined, offset |-> Undefined,
       utcOffsetSeconds |-> Undefined],
      [threw |-> FALSE, isNull |-> FALSE, current |-> NumString(39600), offset |-> Undefined,
       utcOffsetSeconds |-> Num(36000)],
      [threw |-> FALSE, isNull |-> FALSE, current |-> Num(39600), offset |-> Num(36000),
       utcOffsetSeconds |-> Num(36000)],
      [threw |-> FALSE, isNull |-> FALSE, current |-> Undefined, offset |-> Num(34200),
       utcOffsetSeconds |-> Undefined],
      [threw |-> FALSE, isNull |-> FALSE, current |-> Null, offset |-> Null,
       utcOffsetSeconds |-> Num(0 - 16200)] }

\* currentLocalTimeOffset ?? localTimeOffset ?? utcOffsetSeconds ?? null
bdcOffsetSeconds(data) ==
    IF data.isNull THEN Null
    ELSE coalesce(coalesce(coalesce(data.current, data.offset), data.utcOffsetSeconds), Null)

\* bdcTimezone: the offset in seconds must be a number; it is converted to hours
G3_Timezone ==
    /\ variant = GenerateChartPlacements
    /\ pc = "timezone-by-location"
    /\ \E reply \in BdcTimezoneReplies :
          /\ calls' = Append(calls, Call("timezone-by-location", <<local.lat, local.lon>>, reply))
          /\ IF reply.threw
             THEN /\ response' = <<Failure(500, "BigDataCloud timezone failed")>>
                  /\ pc' = "done"
                  /\ local' = local
             ELSE IF bdcOffsetSeconds(reply).t # "number"
             THEN /\ response' = <<Failure(500, "Could not auto-derive timezone from birthplace.")>>
                  /\ pc' = "done"
                  /\ local' = local
             ELSE /\ response' = response
                  /\ pc' = "western_horoscope"
                  /\ local' = [local EXCEPT !.tzone = offsetHours(bdcOffsetSeconds(reply))]
    /\ UNCHANGED <<variant, body, tagMap, warnings, degVars, houseVars>>

\* one entry of the provider's planets array
Planet(name, sign, house, full_degree, fullDegree) ==
    [name |-> name, sign |-> sign, house |-> house,
     full_degree |-> full_degree, fullDegree |-> fullDegree]

\* zero or one entry per body, in the provider's order
SunInputs ==
    { <<>>,
      << Planet(Text("sun", "title"), Text("gemini", "title"), Num(3), Num(75), Undefined) >>,
      << Planet(Text("sun", "upper"), EmptyString, Undefined, Num(75), Undefined) >> }

MoonInputs ==
    { <<>>,
      << Planet(Text("moon", "upper"), Text("scorpio", "upper"), NumString(8), Undefined, Undefined) >> }

MarsInputs ==
    { <<>>,
      << Planet(Text("mars", "title"), Text("leo", "title"), Num(0), NumString(130), Undefined) >>,
      << Planet(Text("mars", "lower"), Undefined, Undefined, Undefined, Num(130)) >> }

NodeInputs ==
    { <<>>,
      << Planet(Text("node", "title"), Text("aries", "title"), Num(1), Num(10), Undefined) >>,
      << Planet(Text("node", "title"), Text("aries", "title"), Num(1), Undefined, Undefined) >>,
      << Planet(Text("node", "upper"), EmptyString, Undefined, Null, NumString(350)) >>,
      << Planet(Text("node", "title"), Text("libra", "title"), Num(7), Num(180), Undefined) >>,
      << Planet(Text("node", "title"), Text("virgo", "title"), Num(6), Num(0), Num(77)) >> }

AscendantInputs ==
    { <<>>,
      << Planet(Text("ascendant", "title"), Text("capricorn", "title"), Num(1), Num(280), Undefined) >>,
      << Planet(Text("ascendant", "lower"), EmptyString, Undefined, Undefined, Num(95)) >> }

\* the provider's houses entries also carry the sign of the cusp
withCuspSigns(hs) ==
    [i \in 1..Len(hs) |->
        [house |-> hs[i].house, degree |-> hs[i].degree,
         sign |-> signValue(degreeToSign(hs[i].degree))]]

HousesInputs ==
    { <<>>,
      withCuspSigns(cuspTable(0, {}, 0, FALSE)),
      withCuspSigns(cuspTable(20, {}, 0, TRUE)),
      withCuspSigns(cuspTable(0, {7}, 0, FALSE)),
      withCuspSigns(cuspTable(280, {}, 0, FALSE)) }

\* planets arrays with a value of an unexpected type: a name or a sign that
\* is a number, a degree that is a string and no number
IrregularPlanetsInputs ==
    LET NumberNamed == Planet(Num(5), Text("leo", "title"), Num(3), Num(75), Undefined)
        SunInGemini == Planet(Text("sun", "title"), Text("gemini", "title"), Num(3), Num(75), Undefined)
        MoonInScorpio == Planet(Text("moon", "title"), Text("scorpio", "title"), Num(8), Num(220), Undefined)
        AscendantInCapricorn ==
            Planet(Text("ascendant", "title"), Text("capricorn", "title"), Num(1), Num(280), Undefined)
    IN
    { << NumberNamed, SunInGemini, MoonInScorpio >>,
      << SunInGemini, MoonInScorpio, NumberNamed >>,
      << SunInGemini, MoonInScorpio, AscendantInCapricorn,
         Planet(Text("mercury", "title"), Num(5), Num(2), Num(40), Undefined) >>,
      << Planet(Text("sun", "title"), Num(5), Num(3), Num(75), Undefined), MoonInScorpio, AscendantInCapricorn >>,
      << SunInGemini, Planet(Text("moon", "title"), Num(0 - 37), Num(8), Num(220), Undefined), AscendantInCapricorn >>,
      << SunInGemini, MoonInScorpio,
         Planet(Text("ascendant", "title"), Num(5), Num(1), Num(280), Undefined) >>,
      << SunInGemini, MoonInScorpio, AscendantInCapricorn,
         Planet(Text("node", "title"), Text("aries", "title"), Num(1), Text("abc", "lower"), Undefined) >>,
      << SunInGemini, MoonInScorpio, AscendantInCapricorn,
         Planet(Text("node", "title"), Text("aries", "title"), Num(1), Text("abc", "lower"), Num(77)) >>,
      << SunInGemini, MoonInScorpio, AscendantInCapricorn,
         Planet(Text("mars", "title"), Text("leo", "title"), Undefined, Text("abc", "lower"), Num(200)) >>,
      << SunInGemini, MoonInScorpio, AscendantInCapricorn,
         Planet(Text("mars", "title"), Text("leo", "title"), Num(0), Text("abc", "lower"), Undefined) >>,
      << SunInGemini, MoonInScorpio >>,
      << SunInGemini, MoonInScorpio,
         Planet(Text("ascendant", "title"), EmptyString, Undefined, Text("abc", "lower"), Num(95)) >> }

\* replies of western_horoscope: fetch rejects; a response with res.ok and a
\* body that parses (or not, which yields {}); status === false
WesternHoroscopeReplies ==
    { [rejected |-> TRUE, ok |-> FALSE, statusFalse |-> FALSE,
       json |-> [planets |-> <<>>, houses |-> <<>>, ascendant |-> Undefined]],
      [rejected |-> FALSE, ok |-> FALSE, statusFalse |-> FALSE,
       json |-> [planets |-> <<>>, houses |-> <<>>, ascendant |-> Undefined]],
      [rejected |-> FALSE, ok |-> TRUE, statusFalse |-> TRUE,
       json |-> [planets |-> <<>>, houses |-> <<>>, ascendant |-> Undefined]] }
    \cup { [rejected |-> FALSE, ok |-> TRUE, statusFalse |-> FALSE,
            json |-> [planets |-> su \o mo \o ma \o no \o as, houses |-> hs, ascendant |-> asc]] :
             su \in SunInputs, mo \in MoonInputs, ma \in MarsInputs, no \in NodeInputs,
             as \in AscendantInputs, hs \in HousesInputs, asc \in {Undefined, Num(280)} }
    \cup { [rejected |-> FALSE, ok |-> TRUE, statusFalse |-> FALSE,
            json |-> [planets |-> planets, houses |-> hs, ascendant |-> asc]] :
             planets \in IrregularPlanetsInputs,
             hs \in { <<>>,
                      withCuspSigns(cuspTable(0, {}, 0, FALSE)),
                      withCuspSigns(cuspTable(20, {}, 0, FALSE)) },
             asc \in { Undefined, Text("abc", "lower") } }

\* astrologyApiWesternHoroscope, then buildPlacements and the 200 response
G3_WesternHoroscope ==
    /\ variant = GenerateChartPlacements
    /\ pc = "western_horoscope"
    /\ \E reply \in WesternHoroscopeReplies :
       LET placements == buildPlacements(reply.json)
       IN /\ calls' = Append(calls, Call("western_horoscope", basePayload(local), reply))
          /\ pc' = "done"
          /\ IF reply.rejected
             THEN /\ response' = <<Failure(500, "fetch failed")>>
                  /\ local' = local
             ELSE IF ~reply.ok \/ reply.statusFalse
             THEN /\ response' = <<Failure(500, "AstrologyAPI error")>>
                  /\ local' = local
             ELSE IF placements = TypeError
             THEN /\ response' = <<Failure(500, TypeError.word)>>
                  /\ local' = local
             ELSE /\ response' = <<Success(placements)>>
                  /\ local' = [local EXCEPT !.wh = reply.json,
                                            !.southNode = southNodeOf(pickPlanet(reply.json.planets, Text("node", "title")),
                                                                      reply.json.houses)]
    /\ UNCHANGED <<variant, body, tagMap, warnings, degVars, houseVars>>

NextGenerateChartPlacements ==
    \/ G3_Begin
    \/ G3_Geocode
    \/ G3_Timezone
    \/ G3_WesternHoroscope

\* this handler reads no tag map
InitSpecPlacements ==
    InitRun({GenerateChartPlacements}, PlacementsBodyInputs, {{}}) /\ InitDegIdle /\ InitHouseIdle

SpecPlacements == InitSpecPlacements /\ [][NextGenerateChartPlacements]_vars

(***************************************************************************)
(* The handlers with a tag loop: part_000, part_001 and the handlers of     *)
(* generate-chart.js that answer with {sun, moon, rising}.                  *)
(***************************************************************************)
NextTags ==
    \/ NextPart000
    \/ NextGenerateChartKit
    \/ NextGenerateChartStub
    \/ NextGenerateChartKitTimezone
    \/ NextPart001

InitSpecTags ==
    /\ \/ InitRun({Part000, GenerateChartKit, Part001}, BodyInputs, TagMapInputs)
       \/ InitRun({GenerateChartStub, GenerateChartKitTimezone}, TimezoneBodyInputs, TagMapInputs)
    /\ InitDegIdle
    /\ InitHouseIdle

SpecTags == InitSpecTags /\ [][NextTags]_vars

(***************************************************************************)
(* The two handlers that assemble placements: part_000 and the third        *)
(* handler of generate-chart.js.                                            *)
(***************************************************************************)
NextAssembler == NextPart000 \/ NextGenerateChartPlacements

InitSpecAssembler ==
    /\ \/ InitRun({Part000}, BodyInputs, TagMapInputs)
       \/ InitRun({GenerateChartPlacements}, PlacementsBodyInputs, {{}})
    /\ InitDegIdle
    /\ InitHouseIdle

SpecAssembler == InitSpecAssembler /\ [][NextAssembler]_vars

(***************************************************************************)
(* Claims about the degree helpers (checked under SpecDeg).                 *)
(***************************************************************************)
\* C8: normalizeDeg returns r with 0 <= r < 360 (never 360), r congruent to the
\* input modulo 360 (-740 gives 340), and normalizing r again returns r.
C8_NormalizeRangeAndIdempotent ==
    /\ normalized # <<>> =>
          /\ normalized[1] >= 0
          /\ normalized[1] < 360
          /\ (normalized[1] - deg) % 360 = 0
          /\ (deg = 0 - 740 => normalized[1] = 340)
    /\ renormalized # <<>> => renormalized[1] = normalized[1]

C8_Witness ==
    /\ deg = 0 - 740
    /\ normalized = <<340>>
    /\ renormalized = <<340>>

\* C9: degreeToSign returns the sign whose 30-degree sector, counted from Aries
\* at [0, 30), holds the input reduced modulo 360; a boundary degree belongs to
\* the sign starting there; the result is one of the 12 names, also below zero.
C9_SignIsFloorSector ==
    signName # <<>> =>
        /\ \E k \in 0..11 :
              /\ signName[1] = signs[k + 1]
              /\ 30 * k <= deg % 360
              /\ deg % 360 < 30 * (k + 1)
        /\ (deg = 0 => signName[1] = "Aries")
        /\ (deg = 30 => signName[1] = "Taurus")
        /\ (deg = 359 => signName[1] = "Pisces")
        /\ (deg = 360 => signName[1] = "Aries")
        /\ (deg = 0 - 1 => signName[1] = "Pisces")

C9_Witness ==
    /\ deg = 30
    /\ signName = <<"Taurus">>

\* C10: the opposite point of d is d + 180 reduced into [0, 360), and the
\* opposite of the opposite is d reduced into [0, 360).
C10_AntipodeRoundTrip ==
    /\ southDeg # <<>> =>
          /\ southDeg[1] \in 0..359
          /\ (southDeg[1] - (deg + 180)) % 360 = 0
    /\ southBack # <<>> =>
          /\ southBack[1] \in 0..359
          /\ (southBack[1] - deg) % 360 = 0
          /\ (normalized # <<>> => southBack[1] = normalized[1])

C10_Witness ==
    /\ deg = 200
    /\ southDeg = <<20>>
    /\ southBack = <<200>>
    /\ normalized = <<200>>

(***************************************************************************)
(* Claims about getHouseFromCusps (checked under SpecHouse).                *)
(***************************************************************************)
\* the cusp degree of house h in the houses array, reduced into [0, 360)
CuspOfHouse(h) ==
    (CHOOSE c \in {houses[i] : i \in 1..Len(houses)} : c.house = h).degree % 360

\* whether the segment from house h's cusp to the next house's cusp holds the point
InSegmentOfHouse(h) ==
    LET start == CuspOfHouse(h)
        end == CuspOfHouse((h % 12) + 1)
        p == pointDeg % 360
    IN  IF start <= end THEN start <= p /\ p < end ELSE p >= start \/ p < end

MatchingHouses == {h \in 1..12 : InSegmentOfHouse(h)}

\* 12 cusps 30 degrees apart, house 1 at `start`
RegularCusps(start) ==
    [i \in 1..12 |-> [house |-> i, degree |-> start + 30 * (i - 1)]]

\* C1: the house returned is the lowest-numbered house whose segment
\* [cusp h, cusp h+1) holds the point, with wrapping segments holding the
\* degrees at or after the start or before the end; with cusps at 0,30,..,330
\* 15 is in house 1 and 45 in house 2; with house 1 at 20 and house 12 at 350,
\* 355 and 10 are in house 12 and 25 in house 1.
C1_LowestMatchingHouse ==
    houseNum # <<>> /\ Len(houses) = 12 =>
        /\ MatchingHouses # {} =>
              /\ houseNum[1] \in MatchingHouses
              /\ \A h \in MatchingHouses : houseNum[1] <= h
        /\ (houses = RegularCusps(0) /\ pointDeg = 15 => houseNum[1] = 1)
        /\ (houses = RegularCusps(0) /\ pointDeg = 45 => houseNum[1] = 2)
        /\ (houses = RegularCusps(20) /\ pointDeg = 355 => houseNum[1] = 12)
        /\ (houses = RegularCusps(20) /\ pointDeg = 10 => houseNum[1] = 12)
        /\ (houses = RegularCusps(20) /\ pointDeg = 25 => houseNum[1] = 1)

C1_Witness ==
    /\ houses = RegularCusps(20)
    /\ pointDeg = 10
    /\ houseNum = <<12>>

(***************************************************************************)
(* Claims about the location fallbacks of part_000 (under SpecPart000).     *)
(***************************************************************************)
\* the calls made to one service, in order
CallsTo(svc) == SelectSeq(calls, LAMBDA c : c.svc = svc)

\* a geo_details reply that carries at least one result
ReturnedResult(c) == ~c.reply.threw /\ ~c.reply.json.isNull /\ c.reply.json.geonames # <<>>

\* the candidates of the two birthplaces of the model, written out
ExpectedCandidates ==
    IF body.birthplace = <<"Melbourne", ",", " ", "Australia">>
    THEN << <<"Melbourne", ",", " ", "Australia">>,
            <<"Melbourne">>,
            <<"Melbourne", ",", " ", "Australia">> >>
    ELSE IF body.birthplace = <<" ", "Paris", " ">>
    THEN << <<"Paris">>, <<"Paris">>, <<"Paris", ",", " ", "Australia">> >>
    ELSE <<>>

\* C2: the k-th location lookup carries the k-th candidate (trimmed input,
\* text before the first comma, that text plus the country suffix); after a
\* lookup that threw or came back empty the handler has not answered and the
\* next candidate is due; no lookup follows one that returned a result; and
\* the coordinates sent to the timezone lookup are those of the first lookup
\* that returned a result.
C2_CandidatesInOrderFirstResultWins ==
    LET geoCalls == CallsTo("geo_details")
        n == Len(geoCalls)
        tzCalls == CallsTo("timezone_with_dst")
    IN  /\ n <= 3
        /\ \A k \in 1..n : geoCalls[k].arg = ExpectedCandidates[k]
        /\ \A k \in 1..n : k < n => ~ReturnedResult(geoCalls[k])
        /\ (n \in 1..2 /\ ~ReturnedResult(geoCalls[n]))
              => (pc = "geo_details" /\ response = <<>>)
        /\ tzCalls # <<>> =>
              /\ n >= 1
              /\ ReturnedResult(geoCalls[n])
              /\ tzCalls[1].arg[1] = Number(geoCalls[n].reply.json.geonames[1].latitude)
              /\ tzCalls[1].arg[2] = Number(geoCalls[n].reply.json.geonames[1].longitude)

\* "Melbourne, Australia" threw, "Melbourne" returned -37/144, and the
\* timezone lookup was made with -37/144
C2_Witness ==
    LET geoCalls == CallsTo("geo_details")
        tzCalls == CallsTo("timezone_with_dst")
    IN  /\ Len(geoCalls) = 2
        /\ geoCalls[1].arg = <<"Melbourne", ",", " ", "Australia">>
        /\ geoCalls[1].reply.threw
        /\ geoCalls[2].arg = <<"Melbourne">>
        /\ geoCalls[2].reply = [threw |-> FALSE, json |-> GeoJsonFound(Num(0 - 37), Num(144))]
        /\ tzCalls # <<>>
        /\ tzCalls[1].arg[1] = Finite(0 - 37)
        /\ tzCalls[1].arg[2] = Finite(144)

\* the handler answered "Birthplace not found"
PlaceNotFound ==
    response # <<>> /\ response[1].error = "Birthplace not found. Tried: "

\* C7: "Birthplace not found" is answered only after all three candidates were
\* looked up without a result, and the candidates its message lists are the
\* ones that were looked up.
C7_NotFoundListsCandidatesSent ==
    LET geoCalls == CallsTo("geo_details")
    IN  PlaceNotFound =>
           /\ Len(geoCalls) = 3
           /\ \A k \in 1..3 : ~ReturnedResult(geoCalls[k])
           /\ response[1].tried = [k \in 1..Len(geoCalls) |-> geoCalls[k].arg]

\* the first candidate returned a geoname without a latitude: one lookup was
\* made and the message lists three candidates
C7_Witness ==
    /\ PlaceNotFound
    /\ Len(CallsTo("geo_details")) = 1
    /\ Len(response[1].tried) = 3

(***************************************************************************)
(* Claims about the Kit steps of part_000 and of the first handler of       *)
(* generate-chart.js (under SpecNotify).                                    *)
(***************************************************************************)
\* the subscribe call did not create or identify a contact
ContactFailed(c) == c.reply.rejected \/ ~c.reply.ok \/ c.reply.id = Undefined

\* a tag call that failed: the fetch was rejected or the response was not ok
TagFailed(c) == c.reply.rejected \/ ~c.reply.ok

\* the tag calls that failed
FailedTagCalls ==
    {k \in 1..Len(CallsTo("kit/tags")) : TagFailed(CallsTo("kit/tags")[k])}

ContactCreated ==
    /\ CallsTo("kit/subscribers") # <<>>
    /\ ~ContactFailed(CallsTo("kit/subscribers")[1])

\* C4: when the contact was created and exactly one tag call failed, the
\* handler returns the success response with the placements.
C4_OneTagFailureStillSucceeds ==
    (response # <<>> /\ ContactCreated /\ Cardinality(FailedTagCalls) = 1) =>
        /\ response[1].statusCode = 200
        /\ response[1].placements = <<placementsOf(local)>>

\* the case of the claim that part_000 handles: three tag calls, one answered
\* with a response that is not ok, and a success response
C4_Witness ==
    /\ variant = Part000
    /\ response # <<>>
    /\ response[1].statusCode = 200
    /\ Len(CallsTo("kit/tags")) = 3
    /\ Cardinality(FailedTagCalls) = 1

\* C5: when the subscribe call fails (fetch rejected, response not ok, or no
\* subscriber id), the handler returns an error response and no tag call is
\* made.
C5_ContactFailureIsFatal ==
    (CallsTo("kit/subscribers") # <<>> /\ ContactFailed(CallsTo("kit/subscribers")[1])) =>
        /\ response # <<>>
        /\ response[1].statusCode = 500
        /\ response[1].placements = <<>>
        /\ pc = "done"
        /\ CallsTo("kit/tags") = <<>>

\* part_000 was answered 200 without a subscriber id while all tags are mapped
C5_Witness ==
    /\ variant = Part000
    /\ CallsTo("kit/subscribers") # <<>>
    /\ CallsTo("kit/subscribers")[1].reply = [rejected |-> FALSE, ok |-> TRUE, id |-> Undefined]
    /\ tagKeysOf(local)[1] \in tagMap
    /\ response # <<>>
    /\ response[1].error = "Kit subscribe failed (no subscriber id). Response: "

(***************************************************************************)
(* Claim about the order of the stages of part_000 and part_001 (under      *)
(* SpecStages).                                                             *)
(***************************************************************************)
TimezoneServices == {"timezone_with_dst", "timezone-by-location", "timezone-info"}
EphemerisServices == {"planets/tropical", "house_cusps/tropical", "western_chart_data"}
ContactServices == {"kit/subscribers", "kit/tags"}

CalledAny(services) == \E k \in 1..Len(calls) : calls[k].svc \in services

\* C6: a timezone call is made only with finite coordinates, an ephemeris call
\* only with a finite UTC offset, a Kit call only with Sun, Moon and Rising
\* extracted; and once the handler has answered, it makes no further call.
C6_StagesInOrder ==
    /\ CalledAny(TimezoneServices) => (local.lat.fin /\ local.lon.fin)
    /\ CalledAny(EphemerisServices) => local.tzone.fin
    /\ CalledAny(ContactServices) =>
          (Truthy(local.sun) /\ Truthy(local.moon) /\ Truthy(local.rising))
    /\ response # <<>> => pc = "done"

\* part_001 asked for the timezone of coordinates whose latitude is NaN
C6_Witness ==
    /\ variant = Part001
    /\ CalledAny(TimezoneServices)
    /\ ~local.lat.fin


(***************************************************************************)
(* Claims about buildPlacements (SpecPlacements)                            *)
(***************************************************************************)
\* the North Node degree buildPlacements read from the provider's reply
NorthNodeDegree(wh) == fullDegreeOf(pickPlanet(wh.planets, Text("node", "title")), Null)

SouthNodeEntries(list) == {k \in 1..Len(list) : list[k].name = SouthNodeLabel}

\* C3: whenever the provider's reply carries a North Node degree n (a number
\* or a string that reads as one),
\* buildPlacements computes a South Node at (n + 180) mod 360 and the returned
\* list has one South Node entry, placed last, whose sign is the thirty-degree
\* sector of that degree and whose house is the house that degree falls in
\* among the reply's cusps; it is computed from the opposite degree and not
\* copied from the North Node (a North Node at 10 in Aries,
\* house 1, gives a South Node at 190: Libra, and house 7 on equal cusps from
\* 0); with no North Node degree there is no South Node entry.
C3_SouthNodeIsOppositePoint ==
    (variant = GenerateChartPlacements /\ response # <<>> /\ response[1].statusCode = 200) =>
        LET wh == calls[Len(calls)].reply.json
            list == response[1].placements[1].list
            n == NorthNodeDegree(wh)
            opposite == (Number(n).v + HalfCircle) % FullCircle
        IN  IF n = Null THEN SouthNodeEntries(list) = {}
            ELSE Number(n).fin =>
                 /\ SouthNodeEntries(list) = {Len(list)}
                 /\ local.southNode # <<>>
                 /\ local.southNode[1].full_degree = Finite(opposite)
                 /\ (Number(n).v = 10) => local.southNode[1].full_degree = Finite(190)
                 /\ list[Len(list)].sign = Text(signWords[(opposite \div SignWidth) + 1], "title")
                 /\ list[Len(list)].house = Num(getHouseFromCusps(opposite, wh.houses))
                 /\ (Number(n).v = 10) => list[Len(list)].sign = Text("libra", "title")
                 /\ (Number(n).v = 10 /\ wh.houses = withCuspSigns(cuspTable(0, {}, 0, FALSE))) =>
                        list[Len(list)].house = Num(7)

\* a 200 response for a reply whose North Node is at 10 in Aries, house 1, on
\* equal cusps from 0: the South Node entry is Libra, house 7
C3_Witness ==
    /\ variant = GenerateChartPlacements
    /\ response # <<>>
    /\ response[1].statusCode = 200
    /\ NorthNodeDegree(local.wh) = Num(10)
    /\ local.wh.houses = withCuspSigns(cuspTable(0, {}, 0, FALSE))
    /\ local.southNode # <<>>
    /\ local.southNode[1].full_degree = Finite(190)
    /\ \E k \in 1..Len(response[1].placements[1].list) :
          /\ response[1].placements[1].list[k] = [name |-> NorthNodeLabel, sign |-> Text("aries", "title"), house |-> Num(1)]
    /\ \E k \in 1..Len(response[1].placements[1].list) :
          /\ response[1].placements[1].list[k] = [name |-> SouthNodeLabel, sign |-> Text("libra", "title"), house |-> Num(7)]

(***************************************************************************)
(* Claims about the assembly of the placements (under SpecAssembler).       *)
(***************************************************************************)
\* the handler answered 200
Succeeded == response # <<>> /\ response[1].statusCode = 200

\* the three signs of a success response, "" for one that is empty or missing
BigThreeOf(r) ==
    IF variant = Part000
    THEN [ sun |-> IF Truthy(r.placements[1].sun) THEN r.placements[1].sun.word ELSE "",
           moon |-> IF Truthy(r.placements[1].moon) THEN r.placements[1].moon.word ELSE "",
           rising |-> IF Truthy(r.placements[1].rising) THEN r.placements[1].rising.word ELSE "" ]
    ELSE [ sun |-> r.placements[1].big3.sun.word,
           moon |-> r.placements[1].big3.moon.word,
           rising |-> r.placements[1].big3.rising.word ]

\* C11: a success response never carries an empty or missing Sun, Moon or
\* Rising sign: when one of them cannot be determined from the ephemeris
\* reply, the handler answers with an error.
C11_NoSuccessWithoutBigThree ==
    Succeeded =>
        /\ BigThreeOf(response[1]).sun # ""
        /\ BigThreeOf(response[1]).moon # ""
        /\ BigThreeOf(response[1]).rising # ""

\* the third handler of generate-chart.js answered 200 for a reply without a
\* Sun entry: the big3 of the response has an empty sun
C11_Witness ==
    /\ variant = GenerateChartPlacements
    /\ Succeeded
    /\ pickPlanet(local.wh.planets, Text("sun", "title")) = <<>>
    /\ response[1].placements[1].big3.sun = EmptyString

\* C12: a success response is returned only for an ephemeris reply that
\* carries a North Node degree; a reply without a Node entry, or with one that
\* has a sign only, ends in an error and not in a success response that lacks
\* the South Node.
C12_NoSuccessWithoutNodeDegree ==
    (variant = GenerateChartPlacements /\ Succeeded) =>
        /\ NorthNodeDegree(calls[Len(calls)].reply.json) # Null
        /\ SouthNodeEntries(response[1].placements[1].list) # {}

\* a 200 response for a reply whose Node entry has a sign and no degree: the
\* list has a North Node entry and no South Node entry
C12_Witness ==
    /\ variant = GenerateChartPlacements
    /\ Succeeded
    /\ pickPlanet(local.wh.planets, Text("node", "title"))
          = << Planet(Text("node", "title"), Text("aries", "title"), Num(1), Undefined, Undefined) >>
    /\ SouthNodeEntries(response[1].placements[1].list) = {}
    /\ \E k \in 1..Len(response[1].placements[1].list) :
          response[1].placements[1].list[k].name = NorthNodeLabel

(***************************************************************************)
(* Claim about the validation of the request (under SpecStages).            *)
(***************************************************************************)
\* a component of dob or tob that is written in digits and lies in lo..hi
ComponentIn(x, lo, hi) == x.t = "numstring" /\ lo <= x.n /\ x.n <= hi

\* dob and tob of the request are integers in calendar-valid ranges
ValidBirthEvent ==
    /\ body.dob # <<>>
    /\ body.tob # <<>>
    /\ Part(body.dob, 1).t = "numstring"
    /\ ComponentIn(Part(body.dob, 2), 1, 12)
    /\ ComponentIn(Part(body.dob, 3), 1, 31)
    /\ ComponentIn(Part(body.tob, 1), 0, 23)
    /\ ComponentIn(Part(body.tob, 2), 0, 59)

\* C13: an external call (location, timezone, ephemeris, Kit) is made only
\* for a request whose date and time components are all integers in the
\* ranges month 1-12, day 1-31, hour 0-23, minute 0-59; any other request is
\* answered with an error before the first call.
C13_InvalidBirthEventMakesNoCall ==
    /\ calls # <<>> => ValidBirthEvent
    /\ (Succeeded => ValidBirthEvent)

\* part_000 looked up the birthplace of a request whose dob is 1990-13-40
C13_Witness ==
    /\ variant = Part000
    /\ body.dob = <<NumString(1990), NumString(13), NumString(40)>>
    /\ CallsTo("geo_details") # <<>>

(***************************************************************************)
(* Claims about the signs and houses of the placements.                     *)
(***************************************************************************)
\* the sign of the house-1 cusp in the ephemeris reply, in lower case; "" if
\* the reply has no house-1 cusp or the cusp has no sign
HouseOneCuspSign ==
    IF variant = Part000
    THEN LET hs == local.houseCusps.houses
             ones == {k \in 1..Len(hs) : hs[k].house \in {Num(1), NumString(1)}}
         IN  IF ones = {} THEN ""
             ELSE hs[CHOOSE k \in ones : \A j \in ones : k <= j].sign.word
    ELSE LET hs == local.wh.houses
             ones == {k \in 1..Len(hs) : hs[k].house = 1}
         IN  IF ones = {} THEN ""
             ELSE hs[CHOOSE k \in ones : \A j \in ones : k <= j].sign.word

\* C14: the rising sign of a success response is the sign of the house-1 cusp
\* of the ephemeris reply (compared without regard to letter case), whatever
\* the other fields of the reply say; a house-1 cusp in Capricorn gives a
\* rising sign of Capricorn.
C14_RisingIsHouseOneCuspSign ==
    (variant \in {Part000, GenerateChartPlacements} /\ Succeeded) =>
        /\ BigThreeOf(response[1]).rising = HouseOneCuspSign
        /\ HouseOneCuspSign = "capricorn" => BigThreeOf(response[1]).rising = "capricorn"

\* the third handler of generate-chart.js answered 200 for a reply whose
\* house-1 cusp is in Capricorn and which has no Ascendant entry and no
\* ascendant degree: the rising sign of the response is empty
C14_Witness ==
    /\ variant = GenerateChartPlacements
    /\ Succeeded
    /\ HouseOneCuspSign = "capricorn"
    /\ pickPlanet(local.wh.planets, Text("ascendant", "title")) = <<>>
    /\ local.wh.ascendant = Undefined
    /\ response[1].placements[1].big3.rising = EmptyString

\* the entry of the returned list for the body the code names nm
ListEntryOf(list, nm) ==
    LET label == IF nm = Text("node", "title") THEN NorthNodeLabel ELSE nm
    IN  list[CHOOSE k \in 1..Len(list) : list[k].name = label]

\* the provider supplied a house number
HouseSupplied(p) == Number(p.house).fin /\ Number(p.house).v # 0

\* C15: for every tracked body in the ephemeris reply, the sign of its list
\* entry is the provider's sign when there is one and otherwise the sign of
\* the reported degree, and its house is the provider's house number when
\* there is one and otherwise the house of the reported degree among the
\* reply's cusps.
C15_SignAndHouseSuppliedOrDerived ==
    (variant = GenerateChartPlacements /\ Succeeded) =>
        \A i \in 1..Len(order) :
            LET picked == pickPlanet(local.wh.planets, order[i])
                reported == fullDegreeOf(picked, Null)
                entry == ListEntryOf(response[1].placements[1].list, order[i])
            IN  picked # <<>> =>
                  /\ \E k \in 1..Len(response[1].placements[1].list) :
                        response[1].placements[1].list[k].name
                            = (IF order[i] = Text("node", "title") THEN NorthNodeLabel ELSE order[i])
                  /\ Truthy(picked[1].sign) => entry.sign = picked[1].sign
                  /\ (~Truthy(picked[1].sign) /\ reported # Null /\ Number(reported).fin) =>
                        entry.sign = Text(signWords[((Number(reported).v % FullCircle) \div SignWidth) + 1], "title")
                  /\ HouseSupplied(picked[1]) => entry.house = Num(Number(picked[1].house).v)
                  /\ (~HouseSupplied(picked[1]) /\ reported # Null /\ Number(reported).fin) =>
                        entry.house = Num(getHouseFromCusps(Number(reported).v, local.wh.houses))

\* a 200 response for a reply whose Sun has a degree of 75 and no sign: the
\* Sun entry of the list has an empty sign
C15_Witness ==
    /\ variant = GenerateChartPlacements
    /\ Succeeded
    /\ pickPlanet(local.wh.planets, Text("sun", "title"))
          = << Planet(Text("sun", "upper"), EmptyString, Undefined, Num(75), Undefined) >>
    /\ ListEntryOf(response[1].placements[1].list, Text("sun", "title")).sign = EmptyString

(***************************************************************************)
(* Claims about the tag loop (under SpecTags and SpecNotify).               *)
(***************************************************************************)
\* the tag keys of this invocation that have an entry in the tag map
MappedKeys == {k \in 1..Len(tagKeysOf(local)) : tagKeysOf(local)[k] \in tagMap}

\* the tag keys for which a tag call was made
AttemptedKeys ==
    {k \in 1..Len(tagKeysOf(local)) :
        \E i \in 1..Len(CallsTo("kit/tags")) : CallsTo("kit/tags")[i].arg[1] = tagKeysOf(local)[k]}

\* C16: when the contact was created and the handler has answered, a tag
\* call was made for every one of SUN_<sun>, MOON_<moon>, RISING_<rising>
\* that has an entry in the tag map, whatever happened to the other tag calls.
C16_EveryMappedTagAttempted ==
    (response # <<>> /\ ContactCreated) => MappedKeys \subseteq AttemptedKeys

\* part_001 with all three keys mapped: the fetch of the first tag call was
\* rejected and the handler answered 500 after that single tag call
C16_Witness ==
    /\ variant = Part001
    /\ ContactCreated
    /\ MappedKeys = {1, 2, 3}
    /\ Len(CallsTo("kit/tags")) = 1
    /\ CallsTo("kit/tags")[1].reply.rejected
    /\ response # <<>>
    /\ response[1].statusCode = 500

\* C17: no tag call is made for a key that has no entry in the tag map, and
\* such a key causes no error: when the contact was created and no tag call
\* failed, the handler answers 200 after calls for exactly the mapped keys,
\* also when no key is mapped and no tag call is made at all.
C17_UnmappedTagSkipped ==
    /\ \A i \in 1..Len(CallsTo("kit/tags")) : CallsTo("kit/tags")[i].arg[1] \in tagMap
    /\ (response # <<>> /\ ContactCreated /\ FailedTagCalls = {}) =>
          /\ response[1].statusCode = 200
          /\ AttemptedKeys = MappedKeys
          /\ Len(CallsTo("kit/tags")) = Cardinality(MappedKeys)
    /\ (ContactCreated /\ MappedKeys = {}) =>
          /\ Succeeded
          /\ CallsTo("kit/tags") = <<>>

\* the first handler of generate-chart.js with only the SUN_ keys mapped:
\* one tag call, for the Sun key, and a 200 response
C17_Witness ==
    /\ variant = GenerateChartKit
    /\ ContactCreated
    /\ MappedKeys = {1}
    /\ Len(CallsTo("kit/tags")) = 1
    /\ CallsTo("kit/tags")[1].arg[1] = tagKeysOf(local)[1]
    /\ Succeeded

\* part_000 with no key mapped: a 200 response and no tag call
C17_WitnessNoneMapped ==
    /\ variant = Part000
    /\ ContactCreated
    /\ tagMap = {}
    /\ CallsTo("kit/tags") = <<>>
    /\ Succeeded

(***************************************************************************)
(* Claims about the fallback of getHouseFromCusps (under SpecHouse).        *)
(***************************************************************************)
\* no segment of the houses array holds the point
NoSegmentHolds ==
    houses = <<>> \/ (Len(houses) = NumHouses /\ MatchingHouses = {})

\* C18: when no segment holds the point (all cusps equal, or no cusps at
\* all), getHouseFromCusps returns house 1, and the fallback leaves a warning
\* that tells the result apart from a house 1 found by a segment.
C18_FallbackIsHouseOneAndFlagged ==
    (houseNum # <<>> /\ NoSegmentHolds) =>
        /\ houseNum = <<1>>
        /\ warnings # <<>>

\* twelve cusps all at 20 and the point 100: the result is house 1 and
\* nothing was logged
C18_Witness ==
    /\ houses = cuspTable(20, 2..NumHouses, 0, FALSE)
    /\ pointDeg = 100
    /\ houseNum = <<1>>
    /\ warnings = <<>>

\* the half of C18 that the code satisfies: the fallback returns house 1
C18_FallbackIsHouseOne ==
    (houseNum # <<>> /\ NoSegmentHolds) => houseNum = <<1>>

(***************************************************************************)
(* Claim about retries in part_000 (under SpecPart000).                     *)
(***************************************************************************)
\* the services part_000 calls apart from the location lookup
SingleCallServices ==
    {"timezone_with_dst", "planets/tropical", "house_cusps/tropical", "kit/subscribers"}

\* C19: in one invocation the timezone lookup, each of the two chart
\* endpoints and the subscribe call are made at most once, whether they
\* succeed or fail; only the location lookup is made more than once, at most
\* three times, the k-th time with the k-th candidate.
C19_NoRetry ==
    /\ \A svc \in SingleCallServices : Len(CallsTo(svc)) <= 1
    /\ Len(CallsTo("geo_details")) <= 3
    /\ \A k \in 1..Len(CallsTo("geo_details")) :
          CallsTo("geo_details")[k].arg = local.attempts[k]
    /\ \A k \in 1..Len(calls) :
          calls[k].svc \in SingleCallServices \cup {"geo_details", "kit/tags"}

\* the timezone lookup threw after three location lookups: the handler
\* answered 500 after that one timezone call
C19_Witness ==
    /\ variant = Part000
    /\ Len(CallsTo("geo_details")) = 3
    /\ Len(CallsTo("timezone_with_dst")) = 1
    /\ CallsTo("timezone_with_dst")[1].reply.threw
    /\ response # <<>>
    /\ response[1].statusCode = 500
    /\ pc = "done"

(***************************************************************************)
(* Claim about well-formed cusps (under SpecHouse).                         *)
(***************************************************************************)
\* the arc from house h's cusp forward to the next house's cusp
ForwardArc(h) ==
    (CuspOfHouse((h % NumHouses) + 1) - CuspOfHouse(h)) % FullCircle

RECURSIVE ArcSum(_)
ArcSum(h) == IF h = 0 THEN 0 ELSE ForwardArc(h) + ArcSum(h - 1)

\* twelve cusps, one per house, pairwise distinct once reduced into [0, 360),
\* that advance in zodiacal order by house number and wrap past 360 once
WellFormedCusps ==
    /\ Len(houses) = NumHouses
    /\ {houses[i].house : i \in 1..Len(houses)} = 1..NumHouses
    /\ \A g, h \in 1..NumHouses : g # h => CuspOfHouse(g) # CuspOfHouse(h)
    /\ ArcSum(NumHouses) = FullCircle

\* C20: on well-formed cusps exactly one segment holds the point, and it is
\* the one getHouseFromCusps returns: the fallback is not reached and the
\* first match hides no other.
C20_WellFormedCuspsOneSegment ==
    (houseNum # <<>> /\ WellFormedCusps) =>
        /\ Cardinality(MatchingHouses) = 1
        /\ houseNum[1] \in MatchingHouses

\* unequal houses given in reversed order, house 1 at 20 and house 12 at
\* 330: the point 10 lies in the wrapping segment of house 12
C20_Witness ==
    /\ houses = cuspTable(20, {3}, 10, TRUE)
    /\ WellFormedCusps
    /\ pointDeg = 10
    /\ houseNum = <<12>>

====
